---- MODULE Spec2Model ----
(***************************************************************************)
(* WorkerManager (task orchestrator) and the worker context it drives.     *)
(*                                                                         *)
(* The main thread is a single-threaded event loop: a macrotask (a timer   *)
(* callback, a message event) runs only when the microtask queue is empty; *)
(* promise reactions (.then/.catch/.finally, the continuation of an await) *)
(* are microtasks.  Caller code (postMessage, cancelAll, terminate) runs   *)
(* synchronously in some macrotask or in an await continuation, so it may  *)
(* run while reactions of the manager are still queued.                    *)
(***************************************************************************)
EXTENDS Integers, Sequences, FiniteSets, TLC

\* ---------------------------------------------------------------- bounds
MaxSubs == 2
MaxChunks == 2
MaxOperations == 2

\* ------------------------------------------------------------- constants
CANCELLED_MESSAGE == "Operation cancelled"

\* The preview and tabular limits of the csv and excel workers.
FIRST_PREVIEW_CHUNK == 100
PREVIEW_CHUNK_SIZE == 200
PREVIEW_LIMIT == 1000
MAX_ROWS == 100000
MAX_COLUMNS == 500
MAX_CELL_CHARS == 200000

\* The postMessage calls of a run: a conversion and a preview stream with its
\* onProgress subscriber, as the converter screens issue them, and a debounced
\* call without subscriber (150 ms, as the search box passes).
Calls ==
    { [type |-> "CONVERT_CSV", debounceMs |-> 0, onProgress |-> FALSE],
      [type |-> "PARSE_FOR_PREVIEW_STREAM", debounceMs |-> 0, onProgress |-> TRUE],
      [type |-> "CONVERT_CSV", debounceMs |-> 150, onProgress |-> FALSE] }

\* The preview streams of a run have no rows (one empty chunk) or one chunk.
ChunkCounts == {0, 1}

\* The inputs of one run: the message of the exceptions its transforms raise
\* (JSON.parse on the input text `cancel`; an Error built without a message) and
\* the reason its callers pass to cancelAll.  The manager never looks into
\* either string, so the pairing is arbitrary.
Environments ==
    { [thrown |-> "Unexpected token 'c', \"cancel\" is not valid JSON",
       reason |-> "Superseded by a newer preview request"],
      [thrown |-> "", reason |-> CANCELLED_MESSAGE] }

\* ------------------------------------------------------------ JS values
Undefined == [kind |-> "undefined"]
Str(s) == [kind |-> "string", text |-> s]
Null == [kind |-> "null"]

\* JSON values.  A string is Str(s) and null is Null; a number is
\* written by its decimal text; the entries of an object are its
\* << key, value >> pairs in insertion order.
Number(text) == [kind |-> "number", text |-> text]
Array(items) == [kind |-> "array", items |-> items]
Object(entries) == [kind |-> "object", entries |-> entries]

\* JavaScript truthiness of an optional string (if (error) ...).
Truthy(v) == v.kind = "string" /\ Len(v.text) > 0

UpperChars == "ABCDEFGHIJKLMNOPQRSTUVWXYZ"
LowerChars == "abcdefghijklmnopqrstuvwxyz"

CharAt(s, i) == SubSeq(s, i, i)

LowerChar(c) ==
    IF \E i \in 1..Len(UpperChars) : CharAt(UpperChars, i) = c
    THEN CharAt(LowerChars, CHOOSE i \in 1..Len(UpperChars) : CharAt(UpperChars, i) = c)
    ELSE c

RECURSIVE ToLowerCase(_)
ToLowerCase(s) ==
    IF Len(s) = 0 THEN ""
    ELSE LowerChar(CharAt(s, 1)) \o ToLowerCase(SubSeq(s, 2, Len(s)))

Includes(s, sub) ==
    \E i \in 1..(Len(s) - Len(sub) + 1) : SubSeq(s, i, i + Len(sub) - 1) = sub

IsCancelledError(error) ==
    IF error.kind = "string" THEN Includes(ToLowerCase(error.text), "cancel")
    ELSE IF error.kind = "Error" THEN Includes(ToLowerCase(error.message), "cancel")
    ELSE FALSE

\* ---------------------------------------------------------------- state
VARIABLES
    worker,            \* this.worker: 0 is null, else the number of the context
    created,           \* number of calls of workerFactory so far
    alive,             \* contexts created and not terminated
    messageHandlers,   \* id -> promise whose resolve is stored
    errorHandlers,     \* id -> promise whose reject is stored
    progressHandlers,  \* id -> submission whose onProgress is stored
    messageId,         \* this.messageId
    debounceTimers,    \* type -> timer id
    timers,            \* browser timers armed and neither fired nor cleared
    subs,              \* the postMessage calls made so far, in order
    promises,          \* the promises created by executePostMessage, in order
    microtasks,        \* queued promise reactions of the manager
    inbox,             \* per context: envelopes posted to it, not yet handled
    jobs,              \* per context: preview streams suspended in nextTick
    channel,           \* per context: responses posted, not yet delivered
    thrown,            \* message of the exceptions the transforms of this run raise
    callerReason,      \* the reason the callers of this run pass to cancelAll
    ignored,           \* history: << id, type >> of the responses delivered while
                       \* the handler map their branch reads had no entry for id
    arg,               \* the value a transform of the workers is called on by itself
    result,            \* what the calls made on it so far have returned, in order
    converter,         \* the ExcelCsvConverter screen: its operations and its state
    viewer             \* the JsonViewer screen: its refs, requests and state;
                       \* handled is history: the runs of handleParse,
                       \* handleClear and handleCancelCurrentTask so far

vars == << worker, created, alive, messageHandlers, errorHandlers, progressHandlers,
           messageId, debounceTimers, timers, subs, promises, microtasks,
           inbox, jobs, channel, thrown, callerReason, ignored, arg, result,
           converter, viewer >>

\* The variables of the screens, seen apart from the manager they call.
screenVars == << converter, viewer >>

\* The variables of a transform called by itself and those of the screens:
\* the manager and the contexts leave them alone.
callVars == << arg, result, screenVars >>

systemVars == << worker, created, alive, messageHandlers, errorHandlers,
                 progressHandlers, messageId, debounceTimers, timers, subs,
                 promises, microtasks, inbox, jobs, channel, thrown,
                 callerReason, ignored >>

managerVars == << worker, created, alive, messageHandlers, errorHandlers,
                  progressHandlers, messageId, debounceTimers, timers, subs,
                  promises, microtasks >>

\* The debounce scenarios take one call more than the others: a request that
\* settles, then a burst of two.
BurstSubs == MaxSubs + 1

\* Every context is created by a postMessage call.
Workers == 1..BurstSubs
EmptyMap == << >>

\* A map with key k removed / set (Map.delete, Map.set).
MapDelete(m, k) == [x \in (DOMAIN m) \ {k} |-> m[x]]
MapSet(m, k, v) == [x \in (DOMAIN m) \cup {k} |-> IF x = k THEN v ELSE m[x]]

InitSystem ==
    /\ worker = 0
    /\ created = 0
    /\ alive = {}
    /\ messageHandlers = EmptyMap
    /\ errorHandlers = EmptyMap
    /\ progressHandlers = EmptyMap
    /\ messageId = 0
    /\ debounceTimers = EmptyMap
    /\ timers = {}
    /\ subs = << >>
    /\ promises = << >>
    /\ microtasks = << >>
    /\ inbox = [w \in Workers |-> << >>]
    /\ jobs = [w \in Workers |-> {}]
    /\ channel = [w \in Workers |-> << >>]
    /\ \E env \in Environments :
          /\ thrown = env.thrown
          /\ callerReason = env.reason
    /\ ignored = {}
    /\ converter = [operations |-> << >>, error |-> Null, isParsing |-> FALSE,
                    isLoading |-> FALSE]
    /\ viewer = [parseSeqRef |-> 0, searchSeqRef |-> 0, requests |-> << >>,
                 jsonTree |-> Null, error |-> Null, isLoading |-> FALSE,
                 taskStatus |-> [state |-> "idle", of |-> 0],
                 searchCount |-> Null, handled |-> 0]

Init ==
    /\ InitSystem
    /\ arg = Undefined
    /\ result = << >>

\* ------------------------------------------------------------- helpers
RECURSIVE SortedSeq(_)
SortedSeq(S) ==
    IF S = {} THEN << >>
    ELSE LET m == CHOOSE x \in S : \A y \in S : x <= y
         IN  << m >> \o SortedSeq(S \ {m})

Range(f) == {f[x] : x \in DOMAIN f}

\* Faulty variant of MakeId: the counter is left out of the id.
MakeIdTypeOnly(type, n) == << type, 0 >>

\* `${type}-${this.messageId++}`: the type and the counter value read.
MakeId(type, n) == << type, n >>

\* Faulty variant of ChunkResponse: chunkIndex is not counted up.
ChunkResponseIndexZero(id, data, chunkIndex, done) ==
    [type |-> "PREVIEW_CHUNK",
     payload |-> [kind |-> "chunk", data |-> data, chunkIndex |-> 0, done |-> done],
     id |-> id, error |-> Undefined]

\* Faulty variant of NextMessageId: the counter is not advanced.
NextMessageIdStuck(n) == n

\* this.messageId++
NextMessageId(n) == n + 1

\* Calling the resolve / reject function of promise n with value v: the call is
\* recorded; a settled promise ignores it.
CallSettle(ps, n, kind, v) ==
    [ps EXCEPT ![n] =
        [@ EXCEPT !.calls = Append(@, [k |-> kind, v |-> v]),
                  !.st = IF @ = "pending"
                         THEN (IF kind = "resolve" THEN "fulfilled" ELSE "rejected")
                         ELSE @,
                  !.v = IF ps[n].st = "pending" THEN v ELSE @]]

\* The reaction queued when promise n settles.  The promise that postMessage
\* returned follows the promise of executePostMessage (the async function's
\* return, or .then(resolve).catch(reject) in the timer callback) before any
\* later macrotask and without touching the manager, so the two are one promise
\* here.  What is left is the .finally of the timer callback: a microtask that
\* deletes the timer entry of the type, and that runs after the continuation of
\* a caller awaiting the promise.
Reaction(ps, n) ==
    IF ps[n].st = "pending" /\ subs[ps[n].sub].debounceMs > 0
    THEN << subs[ps[n].sub].type >>
    ELSE << >>

\* ------------------------------------------------------- WorkerManager
\* executePostMessage(type, payload, transfer, onProgress), called for
\* submission s while this.worker is w.
ExecutePostMessage(type, s, onProgress, w) ==
    LET n  == Len(promises) + 1
        id == MakeId(type, messageId)
    IN  /\ messageId' = NextMessageId(messageId)
        /\ promises' = Append(promises,
               [id |-> id, sub |-> s, w |-> w, st |-> "pending", v |-> Undefined,
                calls |-> << >>])
        /\ messageHandlers' = MapSet(messageHandlers, id, n)
        /\ errorHandlers' = MapSet(errorHandlers, id, n)
        /\ progressHandlers' =
               IF onProgress THEN MapSet(progressHandlers, id, s) ELSE progressHandlers
        /\ inbox' = IF w # 0
                    THEN [inbox EXCEPT ![w] =
                             Append(@, [type |-> type, payload |-> [data |-> s], id |-> id])]
                    ELSE inbox

\* The timers of earlier debounced calls of this type that are armed.
ArmedOfType(type) == {t \in timers : subs[t].type = type}

\* Whether a dispatched request of this type is unsettled.
InFlight(type) ==
    \E n \in 1..Len(promises) :
       promises[n].st = "pending" /\ subs[promises[n].sub].type = type

\* A postMessage call: its arguments, the context init() left in this.worker,
\* and the payloads its onProgress has been called with.  Two fields keep what
\* the call found: the armed timers of its type (a debounced call is made
\* before their callbacks run) and whether a request of its type was in flight.
NewSub(type, debounceMs, onProgress, w) ==
    [type |-> type, debounceMs |-> debounceMs, onProgress |-> onProgress,
     ctx |-> w, progress |-> << >>,
     armed |-> IF debounceMs > 0 THEN ArmedOfType(type) ELSE {},
     busy |-> InFlight(type)]

\* Faulty variant of NeedsWorker: init() does not look at this.worker.
NeedsWorkerAlways == TRUE

\* if (this.worker) return: init() calls the factory only when there is no
\* context.
NeedsWorker == worker = 0

\* postMessage(type, payload, transfer, debounceMs, onProgress)
Submit(type, debounceMs, onProgress) ==
    LET s == Len(subs) + 1
        mustCreate == NeedsWorker
        w == IF mustCreate THEN created + 1 ELSE worker
    IN  \* init()
        /\ worker' = w
        /\ created' = IF mustCreate THEN created + 1 ELSE created
        /\ alive' = IF mustCreate THEN alive \cup {w} ELSE alive
        /\ subs' = Append(subs, NewSub(type, debounceMs, onProgress, w))
        /\ IF debounceMs > 0
           THEN /\ timers' = (IF type \in DOMAIN debounceTimers
                              THEN timers \ {debounceTimers[type]}
                              ELSE timers) \cup {s}
                /\ debounceTimers' = MapSet(debounceTimers, type, s)
                /\ UNCHANGED << messageHandlers, errorHandlers, progressHandlers,
                                messageId, promises, inbox >>
           ELSE /\ ExecutePostMessage(type, s, onProgress, w)
                /\ UNCHANGED << timers, debounceTimers >>
        /\ UNCHANGED << microtasks, jobs, channel, thrown, callerReason, callVars, ignored >>

\* One of the postMessage calls of a run.
PostMessage(type, debounceMs, onProgress) ==
    /\ Len(subs) < MaxSubs
    /\ Submit(type, debounceMs, onProgress)

\* The callback of the debounce timer armed by submission t.
TimerFire(t) ==
    /\ t \in timers
    /\ microtasks = << >>
    /\ timers' = timers \ {t}
    /\ ExecutePostMessage(subs[t].type, t, subs[t].onProgress, worker)
    /\ UNCHANGED << worker, created, alive, debounceTimers, subs, microtasks,
                    jobs, channel, thrown, callerReason, callVars, ignored >>

\* Faulty variant of Untrack: the maps are cleared instead.
UntrackEverything(id) ==
    /\ messageHandlers' = EmptyMap
    /\ errorHandlers' = EmptyMap
    /\ progressHandlers' = EmptyMap

\* Faulty variant of Untrack: errorHandlers.delete(id) is missing.
UntrackKeepsError(id) ==
    /\ messageHandlers' = MapDelete(messageHandlers, id)
    /\ errorHandlers' = errorHandlers
    /\ progressHandlers' = MapDelete(progressHandlers, id)

\* The three deletes that end the tracking of id.
Untrack(id) ==
    /\ messageHandlers' = MapDelete(messageHandlers, id)
    /\ errorHandlers' = MapDelete(errorHandlers, id)
    /\ progressHandlers' = MapDelete(progressHandlers, id)

\* Faulty variant of Route: a chunk is taken for the final result.
RouteChunkAsResult(resp) ==
    IF resp.type = "PROGRESS" THEN "progress"
    ELSE IF resp.type = "PREVIEW_COMPLETE" THEN "complete"
    ELSE IF Truthy(resp.error) THEN "error"
    ELSE "success"

\* Which branch of worker.onmessage a response takes.
Route(resp) ==
    IF resp.type \in {"PROGRESS", "PREVIEW_CHUNK"} THEN "progress"
    ELSE IF resp.type = "PREVIEW_COMPLETE" THEN "complete"
    ELSE IF Truthy(resp.error) THEN "error"
    ELSE "success"

\* worker.onmessage, installed by init() on context w, for the oldest response
\* that w posted and that was not delivered yet.
OnMessage(w) ==
    /\ channel[w] # << >>
    /\ microtasks = << >>
    /\ LET resp  == Head(channel[w])
           id    == resp.id
           route == Route(resp)
           known == IF route = "progress" THEN id \in DOMAIN progressHandlers
                    ELSE IF route = "error" THEN id \in DOMAIN errorHandlers
                    ELSE id \in DOMAIN messageHandlers
       IN  /\ channel' = [channel EXCEPT ![w] = Tail(@)]
           /\ ignored' = IF known THEN ignored ELSE ignored \cup {<< id, resp.type >>}
           /\ CASE route = "progress" ->
                     /\ subs' = IF id \in DOMAIN progressHandlers
                                THEN [subs EXCEPT ![progressHandlers[id]].progress =
                                         Append(@, resp.payload)]
                                ELSE subs
                     /\ UNCHANGED << messageHandlers, errorHandlers, progressHandlers,
                                     promises, microtasks >>
                [] route = "error" ->
                     /\ IF id \in DOMAIN errorHandlers
                        THEN /\ promises' = CallSettle(promises, errorHandlers[id],
                                                       "reject", resp.error)
                             /\ microtasks' = microtasks \o Reaction(promises, errorHandlers[id])
                        ELSE UNCHANGED << promises, microtasks >>
                     /\ Untrack(id)
                     /\ UNCHANGED subs
                [] OTHER ->
                     /\ IF id \in DOMAIN messageHandlers
                        THEN /\ promises' = CallSettle(promises, messageHandlers[id],
                                                       "resolve", resp.payload)
                             /\ microtasks' = microtasks \o Reaction(promises, messageHandlers[id])
                        ELSE UNCHANGED << promises, microtasks >>
                     /\ Untrack(id)
                     /\ UNCHANGED subs
    /\ UNCHANGED << worker, created, alive, messageId, debounceTimers, timers,
                    inbox, jobs, thrown, callerReason, callVars >>

\* The oldest queued reaction: .finally(() => this.debounceTimers.delete(type)).
RunMicrotask ==
    /\ microtasks # << >>
    /\ debounceTimers' = MapDelete(debounceTimers, Head(microtasks))
    /\ microtasks' = Tail(microtasks)
    /\ UNCHANGED << worker, created, alive, messageHandlers, errorHandlers,
                    progressHandlers, messageId, timers, subs, promises, inbox, jobs,
                    channel, thrown, callerReason, callVars, ignored >>

\* Faulty variant of RejectAll: only the oldest handler is called.
RejectFirstOnly(ps, ns, reason) ==
    IF ns = << >> THEN ps ELSE CallSettle(ps, Head(ns), "reject", Str(reason))

\* errorHandlers.forEach((reject) => reject(reason)), in insertion order.
RECURSIVE RejectAll(_, _, _)
RejectAll(ps, ns, reason) ==
    IF ns = << >> THEN ps
    ELSE RejectAll(CallSettle(ps, Head(ns), "reject", Str(reason)), Tail(ns), reason)

RECURSIVE Reactions(_, _)
Reactions(ps, ns) ==
    IF ns = << >> THEN << >>
    ELSE Reaction(ps, Head(ns)) \o Reactions(ps, Tail(ns))

\* Faulty variant of ClearHandlers: progressHandlers.clear() is missing.
ClearHandlersKeepsProgress ==
    /\ errorHandlers' = EmptyMap
    /\ messageHandlers' = EmptyMap
    /\ progressHandlers' = progressHandlers

\* Faulty variant of ClearHandlers: messageHandlers.clear() is missing.
ClearHandlersKeepsMessage ==
    /\ errorHandlers' = EmptyMap
    /\ messageHandlers' = messageHandlers
    /\ progressHandlers' = EmptyMap

\* The three clear() calls of cancelAll.
ClearHandlers ==
    /\ errorHandlers' = EmptyMap
    /\ messageHandlers' = EmptyMap
    /\ progressHandlers' = EmptyMap

\* Faulty variant of AfterTerminate: the context keeps running.
AfterTerminateNoop(live, w) == live

\* worker.terminate(): the context is live no more.
AfterTerminate(live, w) == live \ {w}

\* cancelAll(reason)
CancelAll(reason) ==
    LET ns == SortedSeq(Range(errorHandlers))
    IN  /\ timers' = timers \ Range(debounceTimers)
        /\ debounceTimers' = EmptyMap
        /\ promises' = RejectAll(promises, ns, reason)
        /\ microtasks' = microtasks \o Reactions(promises, ns)
        /\ ClearHandlers
        \* this.worker?.terminate(): the context stops and its memory is gone;
        \* responses it had already posted may still be on their way.
        /\ alive' = AfterTerminate(alive, worker)
        /\ inbox' = [w \in Workers |-> IF w = worker THEN << >> ELSE inbox[w]]
        /\ jobs' = [w \in Workers |-> IF w = worker THEN {} ELSE jobs[w]]
        /\ worker' = 0
        /\ UNCHANGED << created, messageId, subs, channel, thrown, callerReason, callVars, ignored >>

\* Faulty variant of Terminate: the reason of the caller is passed on.
TerminateWithCallerReason == CancelAll(callerReason)

\* terminate()
Terminate == CancelAll(CANCELLED_MESSAGE)

\* ------------------------------------------------------- worker context
ChunkResponse(id, data, chunkIndex, done) ==
    [type |-> "PREVIEW_CHUNK",
     payload |-> [kind |-> "chunk", data |-> data, chunkIndex |-> chunkIndex, done |-> done],
     id |-> id, error |-> Undefined]

CompleteResponse(id, data, n) ==
    [type |-> "PREVIEW_COMPLETE",
     payload |-> [kind |-> "complete", data |-> data, chunks |-> n],
     id |-> id, error |-> Undefined]

SuccessResponse(id, data) ==
    [type |-> "CONVERSION_SUCCESS",
     payload |-> [kind |-> "result", data |-> data],
     id |-> id, error |-> Undefined]

\* (variant: the catch block posts the response without the message)
ErrorResponseWithoutMessage(id, errorMessage) ==
    [type |-> "CONVERSION_ERROR", payload |-> Null, id |-> id, error |-> Undefined]

\* The catch block of self.onmessage.
ErrorResponse(id, errorMessage) ==
    [type |-> "CONVERSION_ERROR", payload |-> Null, id |-> id, error |-> Str(errorMessage)]

Post(w, resps) == channel' = [channel EXCEPT ![w] = @ \o resps]

\* The response of PARSE_FOR_PREVIEW.
ParseSuccessResponse(id, data) ==
    [type |-> "PARSE_SUCCESS",
     payload |-> [kind |-> "result", data |-> data],
     id |-> id, error |-> Undefined]

\* The chunks 0 .. k-1 that flushChunk posts, each with done: false.
FlushedChunks(id, data, k) == [i \in 1..k |-> ChunkResponse(id, data, i - 1, FALSE)]

\* The error of the parse step of PREVIEW_CSV_STREAM on a row with too many
\* columns.
StepLimitMessage == "Preview parse stopped: dataset exceeds 500 columns"

\* payload.type of a CONVERT_CSV request: the field is optional.
ConvTypes == {"json-to-csv", "csv-to-json", "undefined"}

\* The conversion types that the converter screens pass.
CallerConvTypes == {"json-to-csv", "csv-to-json"}

\* self.onmessage of context w for the oldest envelope it has received, up to
\* its first suspension.  The transform of the payload either throws (with
\* message `thrown`) or yields rows.  What the payload holds is chosen here:
\* its conversion type among convTypes, the number of chunks its rows make
\* among counts.
Handle(w, convTypes, counts) ==
    /\ w \in alive
    /\ inbox[w] # << >>
    /\ LET msg == Head(inbox[w])
           id  == msg.id
           d   == msg.payload.data
       IN  /\ inbox' = [inbox EXCEPT ![w] = Tail(@)]
           /\ \/ /\ Post(w, << ErrorResponse(id, thrown) >>)
                 /\ UNCHANGED jobs
              \/ /\ msg.type = "CONVERT_CSV"
                 /\ \E convType \in convTypes :
                       IF convType \in {"json-to-csv", "csv-to-json"}
                       THEN Post(w, << SuccessResponse(id, d) >>)
                       ELSE Post(w, << >>)
                 /\ UNCHANGED jobs
              \/ /\ msg.type = "PARSE_FOR_PREVIEW"
                 /\ Post(w, << ParseSuccessResponse(id, d) >>)
                 /\ UNCHANGED jobs
              \/ /\ msg.type = "PARSE_FOR_PREVIEW_STREAM"
                 /\ \E n \in counts :
                       IF n = 0
                       THEN /\ Post(w, << ChunkResponse(id, d, 0, TRUE),
                                          CompleteResponse(id, d, 0) >>)
                            /\ UNCHANGED jobs
                       ELSE /\ Post(w, << ChunkResponse(id, d, 0, n = 1) >>)
                            /\ jobs' = [jobs EXCEPT ![w] =
                                   @ \cup {[id |-> id, data |-> d, next |-> 1, n |-> n]}]
              \/ /\ msg.type = "PREVIEW_CSV_STREAM"
                 \* Papa.parse runs to its end in this task: the step callback
                 \* posts a chunk each time enough rows are pending.
                 /\ \E k \in counts :
                       \/ \* the step callback rejects after k chunks
                          /\ Post(w, FlushedChunks(id, d, k)
                                     \o << ErrorResponse(id, StepLimitMessage) >>)
                          /\ UNCHANGED jobs
                       \/ \* no row is pending when the parse completes
                          /\ Post(w, IF k = 0
                                     THEN << ChunkResponse(id, d, 0, TRUE),
                                             CompleteResponse(id, d, 0) >>
                                     ELSE FlushedChunks(id, d, k)
                                             \o << CompleteResponse(id, d, k) >>)
                          /\ UNCHANGED jobs
                       \/ \* rows are pending: flushChunk(true) posts them as
                          \* chunk k - 1 and waits for nextTick
                          /\ k > 0
                          /\ Post(w, FlushedChunks(id, d, k))
                          /\ jobs' = [jobs EXCEPT ![w] =
                                 @ \cup {[id |-> id, data |-> d, next |-> k, n |-> k]}]
    /\ UNCHANGED << managerVars, thrown, callerReason, callVars, ignored >>

\* self.onmessage for the requests of the converter screens.
WorkerHandle(w) == Handle(w, CallerConvTypes, ChunkCounts)

\* emitPreviewChunks resumed after `await nextTick()`: the next chunk, or
\* PREVIEW_COMPLETE once the loop has ended.
WorkerTick(w) ==
    /\ w \in alive
    /\ \E j \in jobs[w] :
          IF j.next < j.n
          THEN /\ Post(w, << ChunkResponse(j.id, j.data, j.next, j.next + 1 = j.n) >>)
               /\ jobs' = [jobs EXCEPT ![w] = (@ \ {j}) \cup {[j EXCEPT !.next = @ + 1]}]
          ELSE /\ Post(w, << CompleteResponse(j.id, j.data, j.n) >>)
               /\ jobs' = [jobs EXCEPT ![w] = @ \ {j}]
    /\ UNCHANGED << managerVars, thrown, callerReason, callVars, ignored >>
    /\ UNCHANGED inbox

\* ------------------------------------------------------- specification
Next ==
    \/ \E c \in Calls : PostMessage(c.type, c.debounceMs, c.onProgress)
    \/ \E t \in timers : TimerFire(t)
    \/ \E w \in Workers : OnMessage(w)
    \/ RunMicrotask
    \/ CancelAll(callerReason)
    \/ Terminate
    \/ \E w \in Workers : WorkerHandle(w)
    \/ \E w \in Workers : WorkerTick(w)

Spec == Init /\ [][Next]_vars

\* ------------------------------------------- specification: debouncing
\* The debounced calls, of two types: a search box that posts at every
\* keystroke.
DebouncedCalls ==
    { [type |-> "CONVERT_CSV", debounceMs |-> 150, onProgress |-> FALSE],
      [type |-> "PARSE_FOR_PREVIEW", debounceMs |-> 150, onProgress |-> FALSE] }

\* One of the postMessage calls of a debounce scenario.
BurstCall(type, debounceMs, onProgress) ==
    /\ Len(subs) < BurstSubs
    /\ Submit(type, debounceMs, onProgress)

DebounceNext ==
    \/ \E c \in DebouncedCalls : BurstCall(c.type, c.debounceMs, c.onProgress)
    \/ \E t \in timers : TimerFire(t)
    \/ \E w \in Workers : OnMessage(w)
    \/ RunMicrotask
    \/ CancelAll(callerReason)
    \/ Terminate
    \/ \E w \in Workers : WorkerHandle(w)

DebounceSpec == Init /\ [][DebounceNext]_vars

\* ------------------------------------------ specification: the context
\* The requests a context is sent: one call of each message type it handles.
WorkerCalls ==
    { [type |-> "CONVERT_CSV", debounceMs |-> 0, onProgress |-> FALSE],
      [type |-> "PARSE_FOR_PREVIEW", debounceMs |-> 0, onProgress |-> FALSE],
      [type |-> "PARSE_FOR_PREVIEW_STREAM", debounceMs |-> 0, onProgress |-> TRUE],
      [type |-> "PREVIEW_CSV_STREAM", debounceMs |-> 0, onProgress |-> TRUE] }

StreamCounts == 0..MaxChunks

\* self.onmessage for any request.
ContextHandle(w) == Handle(w, ConvTypes, StreamCounts)

\* The context alone: nothing it posts is delivered, so channel[w] is all that
\* context w has posted, in order.
WorkerNext ==
    \/ \E c \in WorkerCalls : PostMessage(c.type, c.debounceMs, c.onProgress)
    \/ \E w \in Workers : ContextHandle(w)
    \/ \E w \in Workers : WorkerTick(w)

WorkerSpec == Init /\ [][WorkerNext]_vars

\* The context and the delivery of its responses, each scheduled fairly: a
\* queued message event or timer task of a live context runs eventually.
SettleNext ==
    \/ \E c \in WorkerCalls : PostMessage(c.type, c.debounceMs, c.onProgress)
    \/ \E w \in Workers : ContextHandle(w)
    \/ \E w \in Workers : WorkerTick(w)
    \/ \E w \in Workers : OnMessage(w)

SettleSpec ==
    /\ Init
    /\ [][SettleNext]_vars
    /\ \A w \in Workers :
          /\ WF_vars(ContextHandle(w))
          /\ WF_vars(WorkerTick(w))
          /\ WF_vars(OnMessage(w))

\* ------------------------------------------ worker context: the rows
\* A dataset is described by what the limits and the emitters read of it: the
\* number of its rows, the number of keys of each row, the length of its
\* longest string cell, and the row (0: none) that carries one key more than
\* the others (in a CSV text, a line with more fields than the header, which
\* Papa.parse stores under the key __parsed_extra).  Row i of a dataset is
\* written i: rows are told apart by their position.
Dataset(rows, columns, cell, extraAt) ==
    [rows |-> rows, columns |-> columns, cell |-> cell, extraAt |-> extraAt]

\* Row counts around the sizes of the first chunk, of the later chunks and of
\* the preview.
RowCounts == {0, 1, 99, 100, 101, 299, 300, 301, 999, 1000, 1001, 1201}

Datasets ==
    { Dataset(n, 3, 10, 0) : n \in RowCounts }
    \cup { Dataset(n, 3, 10, 0) : n \in {MAX_ROWS, MAX_ROWS + 1} }
    \cup { Dataset(150, c, 10, 0) : c \in {MAX_COLUMNS, MAX_COLUMNS + 1} }
    \cup { Dataset(150, 3, l, 0) : l \in {MAX_CELL_CHARS, MAX_CELL_CHARS + 1} }
    \cup { Dataset(400, MAX_COLUMNS, 10, 350) }

Min(a, b) == IF a < b THEN a ELSE b

\* (variant: every slice starts at the first row)
SliceFromStart(n, from, to) == [k \in 1..(Min(to, n) - from) |-> k]

\* rows.slice(from, to) of a dataset of n rows.
Slice(n, from, to) == [k \in 1..(Min(to, n) - from) |-> from + k]

\* (variant: the extra field of a line is not counted)
RowKeysOfHeader(d, i) == d.columns

\* Object.keys(row).length of row i.
RowKeys(d, i) == d.columns + (IF i = d.extraAt THEN 1 ELSE 0)

NoError == "none"

\* ---- enforceTabularLimits(rows, context)
\* A string of n characters, written by its length.
StringOfLength(n) == [kind |-> "string", length |-> n]

\* A row object of a table: its keys are column numbers, visited in
\* ascending order, and each of its cells holds the value cell.
TableRow(keys, cell) == [kind |-> "object", keys |-> keys, cell |-> cell]

\* A row array is written as a sequence of runs: count equal rows, one after
\* the other.
Run(count, row) == [count |-> count, row |-> row]

\* rows.length
RECURSIVE RowCount(_)
RowCount(rows) == IF rows = << >> THEN 0 ELSE rows[1].count + RowCount(Tail(rows))

\* (variant: a string of exactly MAX_CELL_CHARS characters is refused)
TooLongAtCeiling(value) == value.kind = "string" /\ value.length >= MAX_CELL_CHARS

\* typeof value === 'string' && value.length > MAX_CELL_CHARS
TooLong(value) == value.kind = "string" /\ value.length > MAX_CELL_CHARS

\* The loop of enforceTabularLimits over the rows left, columnSet holding the
\* keys already seen: the message of the error thrown, NoError if none is.
\* Rows that are not objects are skipped.  The first row of a run adds the
\* keys of the run and meets its cells; the rows after it add nothing.  At
\* each entry the key is added and the column count tested, then the cell.
RECURSIVE EnforceRows(_, _, _)
EnforceRows(rows, columnSet, context) ==
    IF rows = << >> THEN NoError
    ELSE LET row == rows[1].row
         IN  IF rows[1].count = 0 \/ row.kind # "object" \/ row.keys = {}
             THEN EnforceRows(Tail(rows), columnSet, context)
             ELSE LET first == CHOOSE k \in row.keys : \A x \in row.keys : k <= x
                  IN  IF /\ TooLong(row.cell)
                         /\ Cardinality(columnSet \cup {first}) <= MAX_COLUMNS
                      THEN context \o ": cell value is too large (>200,000 chars)"
                      ELSE IF Cardinality(columnSet \cup row.keys) > MAX_COLUMNS
                      THEN context \o ": dataset exceeds 500 columns"
                      ELSE EnforceRows(Tail(rows), columnSet \cup row.keys, context)

\* (variant: no limit is enforced)
EnforceNothing(rows, context) == NoError

\* enforceTabularLimits(rows, context): the message of the error it throws,
\* NoError when it returns.
EnforceTabularLimits(rows, context) ==
    IF RowCount(rows) > MAX_ROWS
    THEN context \o ": dataset exceeds 100,000 rows"
    ELSE EnforceRows(rows, {}, context)

\* The row array of a dataset.
ArrayOf(d) ==
    LET row  == TableRow(1..d.columns, StringOfLength(d.cell))
        wide == TableRow(1..(d.columns + 1), StringOfLength(d.cell))
    IN  IF d.extraAt \in 1..d.rows
        THEN << Run(d.extraAt - 1, row), Run(1, wide), Run(d.rows - d.extraAt, row) >>
        ELSE << Run(d.rows, row) >>

\* A PREVIEW_CHUNK response: payload { chunk, chunkIndex, totalRows, done }.
PreviewChunk(id, chunk, chunkIndex, totalRows, done) ==
    [type |-> "PREVIEW_CHUNK",
     payload |-> [chunk |-> chunk, chunkIndex |-> chunkIndex,
                  totalRows |-> totalRows, done |-> done],
     id |-> id, error |-> Undefined]

\* A PREVIEW_COMPLETE response: payload { totalRows, previewRows }.
PreviewComplete(id, totalRows, previewRows) ==
    [type |-> "PREVIEW_COMPLETE",
     payload |-> [totalRows |-> totalRows, previewRows |-> previewRows],
     id |-> id, error |-> Undefined]

\* (variant: every chunk has the size of the first)
ChunkSizeUniform(chunkIndex) == FIRST_PREVIEW_CHUNK

\* The size of chunk number chunkIndex.
ChunkSize(chunkIndex) ==
    IF chunkIndex = 0 THEN FIRST_PREVIEW_CHUNK ELSE PREVIEW_CHUNK_SIZE

\* (variant: an empty chunk is never posted)
EmptyChunkNever(count) == FALSE

\* The test that guards the empty chunk: `cappedRows.length === 0` in
\* emitPreviewChunks, `chunkIndex === 0` in PREVIEW_CSV_STREAM.
EmptyChunkDue(count) == count = 0

\* ---- emitPreviewChunks(rows, id)
\* (variant: totalRows counts the capped rows)
EmitJobCappedTotal(id, d) ==
    [id |-> id, d |-> d, phase |-> "emit", totalRows |-> Min(d.rows, PREVIEW_LIMIT),
     emitted |-> Min(d.rows, PREVIEW_LIMIT), pending |-> << >>,
     index |-> 0, chunkIndex |-> 0, error |-> NoError]

\* A call of emitPreviewChunks: its locals, kept while it waits for nextTick.
EmitJob(id, d) ==
    [id |-> id, d |-> d, phase |-> "emit", totalRows |-> d.rows,
     emitted |-> Min(d.rows, PREVIEW_LIMIT), pending |-> << >>,
     index |-> 0, chunkIndex |-> 0, error |-> NoError]

\* emitPreviewChunks from the head of its loop to its next suspension or its
\* end: << the responses posted, the job after them >>.
EmitRun(j) ==
    IF j.index < j.emitted
    THEN LET size == ChunkSize(j.chunkIndex)
         IN  << << PreviewChunk(j.id, Slice(j.emitted, j.index, j.index + size),
                                j.chunkIndex, j.totalRows,
                                j.index + size >= j.emitted) >>,
                [j EXCEPT !.index = @ + size, !.chunkIndex = @ + 1] >>
    ELSE << (IF EmptyChunkDue(j.emitted)
             THEN << PreviewChunk(j.id, << >>, 0, j.totalRows, TRUE) >>
             ELSE << >>)
            \o << PreviewComplete(j.id, j.totalRows, j.emitted) >>,
            [j EXCEPT !.phase = "done"] >>

\* ---- PREVIEW_CSV_STREAM
\* The locals of the PREVIEW_CSV_STREAM branch: totalRows, emittedRows.length,
\* pendingRows, chunkIndex, and the error the parse promise was rejected with.
CsvJob(id, d) ==
    [id |-> id, d |-> d, phase |-> "parse", totalRows |-> 0,
     emitted |-> 0, pending |-> << >>,
     index |-> 0, chunkIndex |-> 0, error |-> NoError]

\* flushChunk(force) up to its `await nextTick()`: << the responses posted,
\* the job after them >>.
FlushChunk(j, force) ==
    LET size == ChunkSize(j.chunkIndex)
        n    == Min(size, Len(j.pending))
    IN  IF Len(j.pending) = 0 \/ (~force /\ Len(j.pending) < size)
        THEN << << >>, j >>
        ELSE << << PreviewChunk(j.id, SubSeq(j.pending, 1, n), j.chunkIndex,
                                j.totalRows, FALSE) >>,
                [j EXCEPT !.pending = SubSeq(@, n + 1, Len(@)),
                          !.chunkIndex = @ + 1] >>

\* The step callback on the next row of the text.
CsvStepRun(j) ==
    LET row == j.totalRows + 1
        j1  == [j EXCEPT !.totalRows = row]
    IN  IF row > MAX_ROWS
        THEN << << >>, [j1 EXCEPT !.phase = "aborted",
                   !.error = "Preview parse stopped: dataset exceeds 100,000 rows"] >>
        ELSE IF j1.emitted >= PREVIEW_LIMIT
        THEN << << >>, j1 >>
        ELSE IF RowKeys(j1.d, row) > MAX_COLUMNS
        THEN << << >>, [j1 EXCEPT !.phase = "aborted",
                   !.error = "Preview parse stopped: dataset exceeds 500 columns"] >>
        ELSE FlushChunk([j1 EXCEPT !.emitted = @ + 1,
                                   !.pending = Append(@, row)], FALSE)

\* The branch after `await new Promise(...)`, from the head of its flush loop
\* to its next suspension or its end.
CsvFlushRun(j) ==
    IF Len(j.pending) > 0
    THEN LET f == FlushChunk(j, TRUE)
         IN  << f[1], [f[2] EXCEPT !.phase = "flush"] >>
    ELSE << (IF EmptyChunkDue(j.chunkIndex)
             THEN << PreviewChunk(j.id, << >>, 0, j.totalRows, TRUE) >>
             ELSE << >>)
            \o << PreviewComplete(j.id, j.totalRows, j.emitted) >>,
            [j EXCEPT !.phase = "done"] >>

\* The message of the error that JSON.parse or XLSX.read throws on a text or
\* a file it cannot read; no rows exist then.
MalformedInput == "Unexpected end of JSON input"

NoRows == Dataset(0, 0, 0, 0)

\* The requests whose rows are an array when the emitter starts.
ArrayStreamTypes == {"PARSE_FOR_PREVIEW_STREAM", "PREVIEW_EXCEL_STREAM"}

\* The context argument of enforceTabularLimits in the branch of each type.
LimitContext(type) ==
    IF type = "PREVIEW_EXCEL_STREAM" THEN "Excel preview parse" ELSE "Preview parse"

\* A context runs one task at a time: while Papa.parse is reading the text
\* of a request, no other task of the context runs.
Parsing(w) == \E j \in jobs[w] : j.phase = "parse"

SetJob(w, old, new) == jobs' = [jobs EXCEPT ![w] = (@ \ old) \cup {new}]

\* self.onmessage of context w for a preview-stream request, with its rows:
\* up to its first suspension or, for PREVIEW_CSV_STREAM, up to the first
\* call of the step callback.  A finished request stays in jobs[w] with
\* phase "done", as the record of what it was sent.
RowsHandle(w) ==
    /\ w \in alive
    /\ inbox[w] # << >>
    /\ ~Parsing(w)
    /\ LET msg == Head(inbox[w])
           id  == msg.id
       IN  /\ inbox' = [inbox EXCEPT ![w] = Tail(@)]
           /\ \/ \E d \in Datasets :
                    \/ /\ msg.type \in ArrayStreamTypes
                       /\ LET e == EnforceTabularLimits(ArrayOf(d), LimitContext(msg.type))
                              r == EmitRun(EmitJob(id, d))
                          IN  IF e # NoError
                              THEN /\ Post(w, << ErrorResponse(id, e) >>)
                                   /\ SetJob(w, {}, [EmitJob(id, d) EXCEPT
                                          !.phase = "done", !.error = e])
                              ELSE /\ Post(w, r[1])
                                   /\ SetJob(w, {}, r[2])
                    \/ /\ msg.type = "PREVIEW_CSV_STREAM"
                       /\ Post(w, << >>)
                       /\ SetJob(w, {}, CsvJob(id, d))
              \/ /\ msg.type \in ArrayStreamTypes
                 /\ Post(w, << ErrorResponse(id, MalformedInput) >>)
                 /\ SetJob(w, {}, [EmitJob(id, NoRows) EXCEPT
                        !.phase = "done", !.error = MalformedInput])
    /\ UNCHANGED << managerVars, thrown, callerReason, callVars, ignored >>

\* Papa.parse of PREVIEW_CSV_STREAM, inside the task of RowsHandle: one call
\* of the step callback or, when the text is read or the parse aborted, the
\* settlement of the parse promise and the branch that awaits it.
CsvStep(w) ==
    /\ w \in alive
    /\ \E j \in jobs[w] :
          /\ j.phase = "parse"
          /\ LET r == IF j.totalRows < j.d.rows THEN CsvStepRun(j) ELSE CsvFlushRun(j)
             IN  IF r[2].phase = "aborted"
                 THEN /\ Post(w, << ErrorResponse(j.id, r[2].error) >>)
                      /\ SetJob(w, {j}, [r[2] EXCEPT !.phase = "done"])
                 ELSE /\ Post(w, r[1])
                      /\ SetJob(w, {j}, r[2])
    /\ UNCHANGED << managerVars, thrown, callerReason, callVars, ignored >>
    /\ UNCHANGED inbox

\* A preview stream resumed after `await nextTick()`.
RowsTick(w) ==
    /\ w \in alive
    /\ ~Parsing(w)
    /\ \E j \in jobs[w] :
          /\ j.phase \in {"emit", "flush"}
          /\ LET r == IF j.phase = "emit" THEN EmitRun(j) ELSE CsvFlushRun(j)
             IN  /\ Post(w, r[1])
                 /\ SetJob(w, {j}, r[2])
    /\ UNCHANGED << managerVars, thrown, callerReason, callVars, ignored >>
    /\ UNCHANGED inbox

\* ------------------------------------- specification: preview streams
\* The preview-stream requests of the csv and excel workers.
StreamCalls ==
    { [type |-> "PARSE_FOR_PREVIEW_STREAM", debounceMs |-> 0, onProgress |-> TRUE],
      [type |-> "PREVIEW_EXCEL_STREAM", debounceMs |-> 0, onProgress |-> TRUE],
      [type |-> "PREVIEW_CSV_STREAM", debounceMs |-> 0, onProgress |-> TRUE] }

\* The one request of a run.
StreamCall(type, debounceMs, onProgress) ==
    /\ subs = << >>
    /\ Submit(type, debounceMs, onProgress)

\* One request, with its rows, and nothing delivered: channel[w] is all that
\* context w has posted, in order.
RowsNext ==
    \/ \E c \in StreamCalls : StreamCall(c.type, c.debounceMs, c.onProgress)
    \/ \E w \in Workers : RowsHandle(w)
    \/ \E w \in Workers : CsvStep(w)
    \/ \E w \in Workers : RowsTick(w)

RowsSpec == Init /\ [][RowsNext]_vars

\* ------------------------------------------------------ flattenObject

\* typeof v === 'object'
TypeofObject(v) == v.kind \in {"object", "array", "null"}

IndexKeys == << "0", "1", "2" >>

\* The own enumerable properties that `for (const k in current)` visits, in
\* order: the entries of an object, the indices of an array.
Entries(v) ==
    IF v.kind = "array"
    THEN [i \in 1..Len(v.items) |-> << IndexKeys[i], v.items[i] >>]
    ELSE v.entries

\* JSON.stringify(v).
RECURSIVE JsonStringify(_), JsonItems(_), JsonMembers(_)
JsonStringify(v) ==
    CASE v.kind = "number" -> v.text
      [] v.kind = "string" -> "\"" \o v.text \o "\""
      [] v.kind = "null"   -> "null"
      [] v.kind = "array"  -> "[" \o JsonItems(v.items) \o "]"
      [] v.kind = "object" -> "{" \o JsonMembers(v.entries) \o "}"

JsonItems(items) ==
    IF items = << >> THEN ""
    ELSE IF Len(items) = 1 THEN JsonStringify(items[1])
    ELSE JsonStringify(items[1]) \o "," \o JsonItems(Tail(items))

JsonMembers(entries) ==
    IF entries = << >> THEN ""
    ELSE LET m == "\"" \o entries[1][1] \o "\":" \o JsonStringify(entries[1][2])
         IN  IF Len(entries) = 1 THEN m ELSE m \o "," \o JsonMembers(Tail(entries))

\* result[key] = value on the entries of result: the value of an existing key
\* is replaced in place, a new key is added last.
SetKey(entries, key, value) ==
    IF \E i \in 1..Len(entries) : entries[i][1] = key
    THEN [i \in 1..Len(entries) |->
             IF entries[i][1] = key THEN << key, value >> ELSE entries[i]]
    ELSE Append(entries, << key, value >>)

\* The `for (const k in current)` loop of flattenObject over the entries es
\* of the popped object: [stack, result] after it.
RECURSIVE VisitEntries(_, _, _, _)
VisitEntries(es, prefix, stack, res) ==
    IF es = << >> THEN [stack |-> stack, result |-> res]
    ELSE LET k      == es[1][1]
             value  == es[1][2]
             newKey == IF prefix # "" THEN prefix \o "." \o k ELSE k
         IN  IF value.kind = "object"
             THEN VisitEntries(Tail(es), prefix,
                               Append(stack, [current |-> value, prefix |-> newKey]), res)
             ELSE IF value.kind = "array"
             THEN VisitEntries(Tail(es), prefix, stack,
                               SetKey(res, newKey, Str(JsonStringify(value))))
             ELSE VisitEntries(Tail(es), prefix, stack, SetKey(res, newKey, value))

\* The `while (stack.length > 0)` loop of flattenObject: stack.pop(), then
\* the loop over the keys of the popped object.
RECURSIVE FlattenLoop(_, _)
FlattenLoop(stack, res) ==
    IF stack = << >> THEN res
    ELSE LET top  == stack[Len(stack)]
             rest == SubSeq(stack, 1, Len(stack) - 1)
             v    == VisitEntries(Entries(top.current), top.prefix, rest, res)
         IN  FlattenLoop(v.stack, v.result)

\* flattenObject(obj)
FlattenObject(obj) ==
    IF obj.kind = "null" \/ ~TypeofObject(obj) THEN obj
    ELSE Object(FlattenLoop(<< [current |-> obj, prefix |-> ""] >>, << >>))

\* ------------------------------------- specification: flattenObject
Scalars == { Number("1"), Number("2"), Str("x"), Null }
Arrays == { Array(<< >>), Array(<< Number("1"), Str("x") >>) }

\* Objects nested in a record: empty, of one entry, and of one entry that is
\* itself an object.
InnerObjects ==
    { Object(<< >>) }
    \cup { Object(<< << k, v >> >>) : k \in {"b", "c"}, v \in Scalars \cup Arrays }
    \cup { Object(<< << "b", Object(<< << "c", v >> >>) >> >>) : v \in Scalars }

Values == Scalars \cup Arrays \cup InnerObjects

\* The keys of a record; "a.b" is also the joined path of key b under key a.
RecordKeys == {"a", "b", "a.b"}

\* Records of one or two entries.
Records ==
    { Object(<< << k, v >> >>) : k \in RecordKeys, v \in Values }
    \cup { Object(<< << p[1], v1 >>, << p[2], v2 >> >>) :
              p \in {q \in RecordKeys \X RecordKeys : q[1] # q[2]},
              v1 \in Values, v2 \in Values }

\* The items flattenObject is called on: records, and the scalars and arrays
\* an array of items may also hold.
FlattenInputs == Records \cup Scalars \cup Arrays

FlattenInit ==
    /\ InitSystem
    /\ arg \in FlattenInputs
    /\ result = << >>

\* flattenObject(arg)
FlattenCall ==
    /\ result = << >>
    /\ result' = << FlattenObject(arg) >>
    /\ UNCHANGED << systemVars, screenVars, arg >>

\* flattenObject of what flattenObject returned.
FlattenAgain ==
    /\ Len(result) = 1
    /\ result' = Append(result, FlattenObject(result[1]))
    /\ UNCHANGED << systemVars, screenVars, arg >>

FlattenNext == FlattenCall \/ FlattenAgain

FlattenSpec == FlattenInit /\ [][FlattenNext]_vars

\* ------------------------------ specification: enforceTabularLimits
\* Rows around the ceilings: objects of 3, 500 and 501 columns, of the two
\* halves of 500 and of 501 columns, with a string cell of exactly and of
\* more than 200,000 characters, without keys, and rows that are no objects.
LimitRows ==
    { TableRow(1..c, Number("1")) : c \in {0, 3, MAX_COLUMNS, MAX_COLUMNS + 1} }
    \cup { TableRow(1..250, Number("1")), TableRow(251..MAX_COLUMNS, Number("1")),
           TableRow(251..(MAX_COLUMNS + 1), Number("1")) }
    \cup { TableRow(1..3, StringOfLength(l)) : l \in {MAX_CELL_CHARS, MAX_CELL_CHARS + 1} }
    \cup { StringOfLength(MAX_CELL_CHARS + 1), Number("1"), Null }

\* Row arrays of no run, of one run and of two runs, of 1 to 100001 rows.
RowArrays ==
    { << >> }
    \cup { << Run(c, r) >> : c \in {1, MAX_ROWS, MAX_ROWS + 1}, r \in LimitRows }
    \cup { << Run(c, r1), Run(1, r2) >> :
              c \in {1, MAX_ROWS - 1, MAX_ROWS}, r1 \in LimitRows, r2 \in LimitRows }

LimitsInit ==
    /\ InitSystem
    /\ arg \in RowArrays
    /\ result = << >>

\* What a call that threw, or returned, leaves to its caller.
Threw(message) == [kind |-> "throw", message |-> message]
Returned(value) == [kind |-> "return", value |-> value]

\* enforceTabularLimits(arg, 'CSV parse')
EnforceCall ==
    /\ result = << >>
    /\ LET e == EnforceTabularLimits(arg, "CSV parse")
       IN  result' = << IF e # NoError THEN Threw(e) ELSE Returned(Undefined) >>
    /\ UNCHANGED << systemVars, screenVars, arg >>

LimitsSpec == LimitsInit /\ [][EnforceCall]_vars

\* ------------------------------------------------ CONVERT_CSV, by rows
\* An array of rows as the value of an option.
RowsValue(rows) == [kind |-> "array", rows |-> rows]

\* rows[i - 1] of a row array, i from 1.
RECURSIVE RowAt(_, _)
RowAt(rows, i) ==
    IF i <= rows[1].count THEN rows[1].row ELSE RowAt(Tail(rows), i - rows[1].count)

\* The row array without its first n rows.
RECURSIVE DropRows(_, _)
DropRows(rows, n) ==
    IF n = 0 \/ rows = << >> THEN rows
    ELSE IF rows[1].count <= n THEN DropRows(Tail(rows), n - rows[1].count)
    ELSE << Run(rows[1].count - n, rows[1].row) >> \o Tail(rows)

\* (variant: every supplied row is written, also past the end of the source)
RowLimitOfSupplied(supplied, parsed) == supplied

\* Math.min(options.overwriteRows.length, results.data.length)
RowLimit(supplied, parsed) == Min(supplied, parsed)

\* The overwriteRows block of csv-to-json and excel-to-json: the parsed rows
\* after `results.data[i] = options.overwriteRows[i]` for i < rowLimit.
\* options.overwriteRows is Undefined or an array of rows.
Overwrite(rows, overwriteRows) ==
    IF overwriteRows.kind # "array" THEN rows
    ELSE LET rowLimit == RowLimit(RowCount(overwriteRows.rows), RowCount(rows))
         IN  [i \in 1..rowLimit |-> Run(1, RowAt(overwriteRows.rows, i))]
                \o DropRows(rows, rowLimit)

\* sanitizeForTabular and flattenObject on the items of a table: an item that
\* is no object becomes { value: item } without flatten (the key value is
\* written 0) and stays as it is with flatten; the cells of a row object are
\* scalars and stay as they are.
TabularItem(item, flatten) ==
    IF item.kind # "object" /\ ~flatten THEN TableRow({0}, item) ELSE item

\* The text Papa.unparse writes, written by the rows it is made of.
CsvText(rows) == [kind |-> "csv", rows |-> rows]

\* The CONVERT_CSV branch of self.onmessage with its catch block, on a
\* payload whose data parses to payload.rows: the responses posted.
ConvertCsv(id, payload) ==
    IF payload.type = "json-to-csv"
    THEN LET processedData ==
                 [i \in 1..Len(payload.rows) |->
                     Run(payload.rows[i].count,
                         TabularItem(payload.rows[i].row, payload.options.flatten))]
             e == EnforceTabularLimits(processedData, "CSV export")
         IN  IF e # NoError THEN << ErrorResponse(id, e) >>
             ELSE << SuccessResponse(id, CsvText(processedData)) >>
    ELSE IF payload.type = "csv-to-json"
    THEN LET e == EnforceTabularLimits(payload.rows, "CSV parse")
         IN  IF e # NoError THEN << ErrorResponse(id, e) >>
             ELSE << SuccessResponse(id,
                        Overwrite(payload.rows, payload.options.overwriteRows)) >>
    ELSE << >>

\* ------------------------------------- specification: CONVERT_CSV
\* n rows told apart by their cells: row i holds strings of base + i
\* characters.
DistinctRows(n, base) == [i \in 1..n |-> Run(1, TableRow(1..3, StringOfLength(base + i)))]

\* The rows a source parses to: none, a few, and arrays at and beyond the
\* ceilings.
SourceRows ==
    { DistinctRows(n, 0) : n \in {0, 1, 3, 10} }
    \cup { << Run(MAX_ROWS, TableRow(1..3, Number("1"))) >>,
           << Run(MAX_ROWS + 1, TableRow(1..3, Number("1"))) >>,
           << Run(1, TableRow(1..3, StringOfLength(MAX_CELL_CHARS + 1))) >> }

\* The overwriteRows of the options: absent, or the edited rows of the table.
SuppliedRows ==
    { Undefined }
    \cup { RowsValue(DistinctRows(n, 100)) : n \in {0, 1, 3, 4, 11} }
    \cup { RowsValue(<< Run(1, TableRow(1..3, StringOfLength(MAX_CELL_CHARS + 1))) >>),
           RowsValue(<< Run(1, TableRow(1..(MAX_COLUMNS + 1), Number("1"))) >>) }

ConvertRequests ==
    { [type |-> t, rows |-> r, options |-> [flatten |-> f, overwriteRows |-> o]] :
         t \in ConvTypes, r \in SourceRows, f \in BOOLEAN, o \in SuppliedRows }

ConvertInit ==
    /\ InitSystem
    /\ arg \in ConvertRequests
    /\ result = << >>

\* self.onmessage for the CONVERT_CSV request CONVERT_CSV-0 with payload arg:
\* result holds what it posted.
ConvertCall ==
    /\ result = << >>
    /\ result' = << ConvertCsv(MakeId("CONVERT_CSV", 0), arg) >>
    /\ UNCHANGED << systemVars, screenVars, arg >>

ConvertSpec == ConvertInit /\ [][ConvertCall]_vars

\* ------------------------------------ PARSE_FOR_PREVIEW_STREAM, by values
\* The longest string among the values of the entries es, 0 if none is a
\* string.
LongestString(es) ==
    LET lengths == { Len(es[i][2].text) : i \in { n \in 1..Len(es) : es[n][2].kind = "string" } }
    IN  IF lengths = {} THEN 0 ELSE CHOOSE l \in lengths : \A m \in lengths : m <= l

\* What enforceTabularLimits meets in an item of processedData: the entries
\* of an object or an array, their keys numbered by position, and the longest
\* string cell; an item that is no object is skipped.
LimitRow(item) ==
    IF item.kind \in {"object", "array"}
    THEN TableRow(1..Len(Entries(item)),
                  IF \E i \in 1..Len(Entries(item)) : Entries(item)[i][2].kind = "string"
                  THEN StringOfLength(LongestString(Entries(item)))
                  ELSE Null)
    ELSE item

\* The while loop of emitPreviewChunks from index on: the PREVIEW_CHUNK
\* responses it posts, one per turn.
RECURSIVE EmitLoop(_, _, _, _, _)
EmitLoop(cappedRows, id, totalRows, index, chunkIndex) ==
    IF index < Len(cappedRows)
    THEN LET size == ChunkSize(chunkIndex)
         IN  << PreviewChunk(id,
                             SubSeq(cappedRows, index + 1, Min(index + size, Len(cappedRows))),
                             chunkIndex, totalRows, index + size >= Len(cappedRows)) >>
             \o EmitLoop(cappedRows, id, totalRows, index + size, chunkIndex + 1)
    ELSE << >>

\* emitPreviewChunks(rows, id): all the responses of the call, in order.
EmitPreviewChunks(rows, id) ==
    LET cappedRows == SubSeq(rows, 1, Min(Len(rows), PREVIEW_LIMIT))
        totalRows  == Len(rows)
    IN  EmitLoop(cappedRows, id, totalRows, 0, 0)
        \o (IF Len(cappedRows) = 0
            THEN << PreviewChunk(id, << >>, 0, totalRows, TRUE) >>
            ELSE << >>)
        \o << PreviewComplete(id, totalRows, Len(cappedRows)) >>

\* The PARSE_FOR_PREVIEW_STREAM branch of self.onmessage, in both contexts,
\* on the value jsonData that JSON.parse returned: the responses posted.
ParseForPreviewStream(id, payload) ==
    LET jsonData == payload.data
        items    == IF jsonData.kind = "array" THEN jsonData.items ELSE << jsonData >>
        processedData ==
            IF payload.options.flatten
            THEN [i \in 1..Len(items) |-> FlattenObject(items[i])]
            ELSE items
        e == EnforceTabularLimits(
                 [i \in 1..Len(processedData) |-> Run(1, LimitRow(processedData[i]))],
                 "Preview parse")
    IN  IF e # NoError THEN << ErrorResponse(id, e) >>
        ELSE EmitPreviewChunks(processedData, id)

\* -------------------------- specification: PARSE_FOR_PREVIEW_STREAM
\* The JSON texts previewed: one record, an array of one record, an array of
\* two rows, an empty array, an array of scalars.
PreviewTexts ==
    Records
    \cup { Array(<< r >>) : r \in Records }
    \cup { Array(<< r, Object(<< << "a", Number("1") >> >>) >>) :
              r \in { Object(<< << k, v >> >>) : k \in RecordKeys, v \in Values } }
    \cup { Array(<< >>), Array(<< Number("1"), Str("x") >>) }

PreviewRequests ==
    { [data |-> t, options |-> [flatten |-> f]] : t \in PreviewTexts, f \in BOOLEAN }

PreviewInit ==
    /\ InitSystem
    /\ arg \in PreviewRequests
    /\ result = << >>

\* self.onmessage on a PARSE_FOR_PREVIEW_STREAM request, to its end.
PreviewCall ==
    /\ result = << >>
    /\ result' = << ParseForPreviewStream(MakeId("PARSE_FOR_PREVIEW_STREAM", 0), arg) >>
    /\ UNCHANGED << systemVars, screenVars, arg >>

PreviewSpec == PreviewInit /\ [][PreviewCall]_vars

\* ------------------------------------------ ExcelCsvConverter: watchdog
\* The operations of the screen that arm a watchdog timer.
WatchdogHandlers == {"handlePreview", "handleSave"}

\* The delay of the watchdog of a handler, in milliseconds.
WatchdogDelay(handler) == IF handler = "handlePreview" THEN 30000 ELSE 60000

\* The error the callback of the watchdog sets.
TimeoutMessage(handler) ==
    IF handler = "handlePreview"
    THEN "Processing timeout - file may be too large or corrupted. Try a smaller file."
    ELSE "Export timeout - file may be too large. Try exporting fewer rows."

\* A call of handlePreview or handleSave: awaiting the manager or ended,
\* how it ended, and its timer timeoutId: armed, cleared or fired.
Operation(handler) ==
    [handler |-> handler, phase |-> "awaiting", outcome |-> "none",
     timer |-> "armed", delay |-> WatchdogDelay(handler)]

\* The catch block of a handler on the rejection of its awaited promise: it
\* returns on a cancellation and reports any other error; timeoutId is not
\* touched.
Caught(op, outcome) == [op EXCEPT !.phase = "ended", !.outcome = outcome]

\* cancelAll of both managers: the promise every awaiting operation waits for
\* is rejected with the cancellation error, and its catch block returns.
CancelAwaiting(operations) ==
    [i \in 1..Len(operations) |->
        IF operations[i].phase = "awaiting"
        THEN Caught(operations[i], "cancelled")
        ELSE operations[i]]

\* A call of handleSave is awaiting: its finally block runs when it ends.
SaveAwaiting(operations) ==
    \E i \in 1..Len(operations) :
        operations[i].phase = "awaiting" /\ operations[i].handler = "handleSave"

\* handlePreview / handleSave up to its await: the state is reset, the
\* requests before it are cancelled, the watchdog is armed.  The reactions of
\* the cancelled calls run before any other task.
StartOperation(handler) ==
    /\ Len(converter.operations) < MaxOperations
    /\ converter' =
          [operations |-> Append(CancelAwaiting(converter.operations), Operation(handler)),
           error      |-> Null,
           isParsing  |-> IF handler = "handlePreview" THEN TRUE ELSE converter.isParsing,
           isLoading  |-> IF SaveAwaiting(converter.operations) THEN FALSE
                          ELSE IF handler = "handleSave" THEN TRUE
                          ELSE converter.isLoading]
    /\ UNCHANGED << systemVars, arg, result, viewer >>

\* The awaited promise of operation i settles and the handler runs to its
\* end: clearTimeout on the way through the try block, the catch block on a
\* rejection, the finally block of handleSave.
SettleOperation(i, outcome) ==
    /\ i \in 1..Len(converter.operations)
    /\ converter.operations[i].phase = "awaiting"
    /\ LET op == converter.operations[i]
       IN  converter' =
              [operations |->
                  [converter.operations EXCEPT ![i] =
                      IF outcome = "done"
                      THEN [op EXCEPT !.phase = "ended", !.outcome = "done",
                                      !.timer = IF @ = "armed" THEN "cleared" ELSE @]
                      ELSE Caught(op, "error")],
               error      |-> IF outcome = "done" THEN converter.error ELSE Str(thrown),
               isParsing  |-> IF op.handler = "handlePreview" THEN FALSE
                              ELSE converter.isParsing,
               isLoading  |-> IF op.handler = "handleSave" THEN FALSE
                              ELSE converter.isLoading]
    /\ UNCHANGED << systemVars, arg, result, viewer >>

\* handleCancelCurrentTask
ConverterCancelCurrentTask ==
    /\ converter' = [converter EXCEPT
                        !.operations = CancelAwaiting(@),
                        !.isParsing = FALSE,
                        !.isLoading = FALSE]
    /\ UNCHANGED << systemVars, arg, result, viewer >>

\* The callback of the watchdog of operation i, when its delay has passed
\* and the timer was not cleared.
WatchdogFire(i) ==
    /\ i \in 1..Len(converter.operations)
    /\ converter.operations[i].timer = "armed"
    /\ LET op == converter.operations[i]
       IN  converter' =
              [operations |-> [converter.operations EXCEPT ![i].timer = "fired"],
               error      |-> Str(TimeoutMessage(op.handler)),
               isParsing  |-> IF op.handler = "handlePreview" THEN FALSE
                              ELSE converter.isParsing,
               isLoading  |-> IF op.handler = "handleSave" THEN FALSE
                              ELSE converter.isLoading]
    /\ UNCHANGED << systemVars, arg, result, viewer >>

\* ------------------------------ specification: ExcelCsvConverter
ConverterNext ==
    \/ \E h \in WatchdogHandlers : StartOperation(h)
    \/ \E i \in 1..MaxOperations : \E o \in {"done", "error"} : SettleOperation(i, o)
    \/ ConverterCancelCurrentTask
    \/ \E i \in 1..MaxOperations : WatchdogFire(i)

ConverterSpec == Init /\ [][ConverterNext]_vars

\* --------------------------------------------------------- JsonViewer
\* The handler runs and the requests of a run of the viewer.
MaxRequests == MaxOperations + 1

\* The tree a PARSE_JSON request resolves with, the error it is rejected
\* with, and the task status its reaction sets: each is told from those of
\* the other requests by the requestId of its request.
Tree(requestId) == [kind |-> "tree", of |-> requestId]
ParseError(requestId) == [kind |-> "error", of |-> requestId, lineNumber |-> Null]
TaskStatus(state, requestId) == [state |-> state, of |-> requestId]

\* What the reactions of a SEARCH_JSON request set searchCount to: the count
\* of its result, or 0 when it failed.
SearchCount(searchId, failed) == [kind |-> "count", of |-> searchId, failed |-> failed]

\* A request of the viewer: seq is its requestId or searchId, after the
\* number of handler runs when it was started.  A parse request is scheduled
\* (its setTimeout callback has not run), then posted, then ended.
ViewerRequest(kind, seq, phase, after) ==
    [kind |-> kind, seq |-> seq, phase |-> phase, after |-> after, outcome |-> "none"]

\* (variant: the reactions apply the outcome of any request)
IsCurrentAlways(seq, ref) == TRUE

\* requestId === parseSeqRef.current, searchId === searchSeqRef.current
IsCurrent(seq, ref) == seq = ref

\* workerRef.current?.cancelAll(reason): the promise of every posted request
\* is rejected with the cancellation error.  The catch block of a parse
\* returns on it, behind the sequence test or at isCancelledError; that of
\* a search does nothing.
ViewerCancelAll(requests) ==
    [i \in 1..Len(requests) |->
        IF requests[i].phase = "posted"
        THEN [requests[i] EXCEPT !.phase = "ended", !.outcome = "cancelled"]
        ELSE requests[i]]

\* handleParse(input, file, directMode), up to its setTimeout.
ViewerHandleParse(hasSource) ==
    /\ viewer.handled < MaxRequests
    /\ Len(viewer.requests) < MaxRequests
    /\ LET requestId == viewer.parseSeqRef + 1
       IN  IF ~hasSource
           THEN viewer' = [viewer EXCEPT !.parseSeqRef = requestId, !.handled = @ + 1]
           ELSE viewer' = [viewer EXCEPT
                   !.parseSeqRef = requestId,
                   !.handled = @ + 1,
                   !.requests = Append(ViewerCancelAll(@),
                                       ViewerRequest("parse", requestId, "scheduled",
                                                     viewer.handled + 1)),
                   !.isLoading = TRUE,
                   !.taskStatus = TaskStatus("running", requestId),
                   !.error = Null]
    /\ UNCHANGED << systemVars, arg, result, converter >>

\* The setTimeout callback of handleParse, up to its await of postMessage.
ViewerPostParse(i) ==
    /\ i \in 1..Len(viewer.requests)
    /\ viewer.requests[i].kind = "parse"
    /\ viewer.requests[i].phase = "scheduled"
    /\ viewer' = [viewer EXCEPT !.requests[i].phase = "posted"]
    /\ UNCHANGED << systemVars, arg, result, converter >>

\* The promise of parse request i settles and the callback runs to its end.
ViewerParseSettled(i, resolved) ==
    /\ i \in 1..Len(viewer.requests)
    /\ viewer.requests[i].kind = "parse"
    /\ viewer.requests[i].phase = "posted"
    /\ LET requestId == viewer.requests[i].seq
       IN  IF ~IsCurrent(requestId, viewer.parseSeqRef)
           THEN viewer' = [viewer EXCEPT !.requests[i].phase = "ended",
                                         !.requests[i].outcome = "dropped"]
           ELSE viewer' = [viewer EXCEPT
                   !.requests[i].phase = "ended",
                   !.requests[i].outcome = "applied",
                   !.jsonTree = IF resolved THEN Tree(requestId) ELSE Null,
                   !.error = IF resolved THEN Null ELSE ParseError(requestId),
                   !.taskStatus = TaskStatus(IF resolved THEN "done" ELSE "error", requestId),
                   !.isLoading = FALSE]
    /\ UNCHANGED << systemVars, arg, result, converter >>

\* The search effect on a change of the debounced query or of the tree.
ViewerSearch(hasQuery) ==
    /\ viewer.jsonTree # Null
    /\ Len(viewer.requests) < MaxRequests
    /\ IF ~hasQuery
       THEN viewer' = [viewer EXCEPT !.searchCount = Null]
       ELSE LET searchId == viewer.searchSeqRef + 1
            IN  viewer' = [viewer EXCEPT
                    !.searchSeqRef = searchId,
                    !.requests = Append(@, ViewerRequest("search", searchId, "posted",
                                                         viewer.handled))]
    /\ UNCHANGED << systemVars, arg, result, converter >>

\* The promise of search request i settles: its then or its catch reaction.
ViewerSearchSettled(i, resolved) ==
    /\ i \in 1..Len(viewer.requests)
    /\ viewer.requests[i].kind = "search"
    /\ viewer.requests[i].phase = "posted"
    /\ LET searchId == viewer.requests[i].seq
       IN  IF ~IsCurrent(searchId, viewer.searchSeqRef)
           THEN viewer' = [viewer EXCEPT !.requests[i].phase = "ended",
                                         !.requests[i].outcome = "dropped"]
           ELSE viewer' = [viewer EXCEPT
                   !.requests[i].phase = "ended",
                   !.requests[i].outcome = "applied",
                   !.searchCount = SearchCount(searchId, ~resolved)]
    /\ UNCHANGED << systemVars, arg, result, converter >>

\* handleClear, confirmed by the user when there is data.
ViewerHandleClear ==
    /\ viewer.handled < MaxRequests
    /\ viewer' = [viewer EXCEPT
          !.taskStatus = IF viewer.isLoading THEN TaskStatus("cancelled", 0) ELSE @,
          !.parseSeqRef = @ + 1,
          !.handled = @ + 1,
          !.requests = ViewerCancelAll(@),
          !.jsonTree = Null,
          !.error = Null,
          !.searchCount = Null,
          !.searchSeqRef = @ + 1]
    /\ UNCHANGED << systemVars, arg, result, converter >>

\* handleCancelCurrentTask
ViewerCancelCurrentTask ==
    /\ viewer.handled < MaxRequests
    /\ viewer' = [viewer EXCEPT
          !.parseSeqRef = @ + 1,
          !.handled = @ + 1,
          !.requests = ViewerCancelAll(@),
          !.isLoading = FALSE,
          !.taskStatus = TaskStatus("cancelled", 0)]
    /\ UNCHANGED << systemVars, arg, result, converter >>

\* ------------------------------------------ specification: JsonViewer
ViewerNext ==
    \/ \E s \in BOOLEAN : ViewerHandleParse(s)
    \/ \E i \in 1..MaxRequests : ViewerPostParse(i)
    \/ \E i \in 1..MaxRequests : \E r \in BOOLEAN : ViewerParseSettled(i, r)
    \/ \E q \in BOOLEAN : ViewerSearch(q)
    \/ \E i \in 1..MaxRequests : \E r \in BOOLEAN : ViewerSearchSettled(i, r)
    \/ ViewerHandleClear
    \/ ViewerCancelCurrentTask

ViewerSpec == Init /\ [][ViewerNext]_vars

\* ---------------------------------------------------------- properties
PromiseIds == 1..Len(promises)
SubIds == 1..Len(subs)

Dispatched(s) == \E n \in PromiseIds : promises[n].sub = s
RejectCall(reason) == [k |-> "reject", v |-> Str(reason)]
CancelReasons == {callerReason, CANCELLED_MESSAGE}

\* Promise n was rejected by cancelAll (the responses of a run never carry one
\* of its cancellation reasons).
Cancelled(n) ==
    /\ promises[n].st = "rejected"
    /\ \E r \in CancelReasons : promises[n].v = Str(r)

\* C1: right after cancelAll(reason) the timer map and the three handler maps
\* are empty, this.worker is null and the context that was live is terminated,
\* and the reject function of every dispatched, unsettled request has been
\* called exactly once, with reason.
C1_CancelAllPostcondition ==
    [][\A r \in CancelReasons :
          CancelAll(r) =>
             /\ debounceTimers' = EmptyMap
             /\ messageHandlers' = EmptyMap
             /\ errorHandlers' = EmptyMap
             /\ progressHandlers' = EmptyMap
             /\ worker' = 0
             /\ alive' = {}
             /\ worker # 0 => worker \in alive /\ worker \notin alive'
             /\ \A n \in PromiseIds :
                   promises[n].st = "pending" =>
                      promises'[n].calls = << RejectCall(r) >>]_vars

\* C1 witness: a cancelAll has rejected a dispatched request with the caller's
\* reason and cleared the timer of a debounced submission.
C1_Witness ==
    /\ worker = 0
    /\ created > 0
    /\ DOMAIN errorHandlers = {}
    /\ DOMAIN debounceTimers = {}
    /\ \E n \in PromiseIds : promises[n].calls = << RejectCall(callerReason) >>
    /\ \E s \in SubIds : subs[s].debounceMs > 0 /\ s \notin timers /\ ~Dispatched(s)

SuccessTypes == {"PREVIEW_COMPLETE", "CONVERSION_SUCCESS"}
ProgressTypes == {"PROGRESS", "PREVIEW_CHUNK"}

\* C2: cancelAll rejects every request in flight, and a request it rejected
\* stays as it is for good: the promise keeps its rejection and neither of its
\* settle functions is called again, whatever is delivered or submitted later.
C2_CancelledStaysRejected ==
    [][/\ \A r \in CancelReasons :
             CancelAll(r) =>
                \A n \in PromiseIds : promises[n].st = "pending" => Cancelled(n)'
       /\ \A n \in PromiseIds : Cancelled(n) => promises'[n] = promises[n]]_vars

\* C2 witness: the terminal response of a request was delivered after cancelAll
\* had rejected that request.
C2_Witness ==
    \E n \in PromiseIds :
       /\ Cancelled(n)
       /\ \E ty \in SuccessTypes : << promises[n].id, ty >> \in ignored

\* C3: isCancelledError is true of the value every cancelAll rejects with and
\* false of the error of every terminal-error response.
C3_ClassifierExact ==
    /\ \A n \in PromiseIds : Cancelled(n) => IsCancelledError(promises[n].v)
    /\ \A w \in Workers : \A i \in 1..Len(channel[w]) :
          channel[w][i].type = "CONVERSION_ERROR" => ~IsCancelledError(channel[w][i].error)

\* The state of the promise that the postMessage call s returned.
FutureSt(s) ==
    IF Dispatched(s)
    THEN promises[CHOOSE n \in PromiseIds : promises[n].sub = s].st
    ELSE "pending"

\* C4: after cancelAll no promise returned by an earlier postMessage call is
\* pending, the debounced calls that wait for their timer included.
C4_CancelAllSettlesEverySubmission ==
    [][\A r \in CancelReasons :
          CancelAll(r) => \A s \in SubIds : FutureSt(s)' # "pending"]_vars

\* C5: the timer of a submission never fires once a cancelAll has run after the
\* submission, that is once the context its init() ensured has been terminated.
C5_NoDispatchAfterCancelAll ==
    [][\A t \in timers : TimerFire(t) => subs[t].ctx \in alive]_vars

\* The request that was given id, and the postMessage call it belongs to.
PromiseOf(id) == CHOOSE n \in PromiseIds : promises[n].id = id
Tracked(id) == id \in DOMAIN messageHandlers /\ id \in DOMAIN errorHandlers

\* Every promise but n, and every map entry but that of id, is left alone.
OthersUntouched(n, id) ==
    /\ \A m \in PromiseIds \ {n} : promises'[m] = promises[m]
    /\ \A x \in (DOMAIN messageHandlers) \ {id} :
          x \in DOMAIN messageHandlers' /\ messageHandlers'[x] = messageHandlers[x]
    /\ \A x \in (DOMAIN errorHandlers) \ {id} :
          x \in DOMAIN errorHandlers' /\ errorHandlers'[x] = errorHandlers[x]
    /\ \A x \in (DOMAIN progressHandlers) \ {id} :
          x \in DOMAIN progressHandlers' /\ progressHandlers'[x] = progressHandlers[x]

Gone(id) ==
    /\ id \notin DOMAIN messageHandlers'
    /\ id \notin DOMAIN errorHandlers'
    /\ id \notin DOMAIN progressHandlers'

\* C6: a CONVERSION_ERROR response for a tracked id rejects the request with
\* the error it carries, whatever the string, and ends the tracking of the id.
C6_ErrorResponseRejects ==
    [][\A w \in Workers :
          (/\ OnMessage(w)
           /\ Head(channel[w]).type = "CONVERSION_ERROR"
           /\ Tracked(Head(channel[w]).id))
          => LET resp == Head(channel[w])
                 n    == PromiseOf(resp.id)
             IN  /\ promises'[n].st = "rejected"
                 /\ promises'[n].v = resp.error
                 /\ Gone(resp.id)]_vars

\* C7: a PREVIEW_COMPLETE or CONVERSION_SUCCESS response for a tracked id
\* resolves that request with the payload, removes the id from the three maps
\* and changes no other request, map entry or subscriber.
C7_SuccessResolvesOnlyItsRequest ==
    [][\A w \in Workers :
          (/\ OnMessage(w)
           /\ Head(channel[w]).type \in SuccessTypes
           /\ Tracked(Head(channel[w]).id))
          => LET resp == Head(channel[w])
                 n    == PromiseOf(resp.id)
             IN  /\ promises[n].st = "pending"
                 /\ promises'[n].st = "fulfilled"
                 /\ promises'[n].v = resp.payload
                 /\ promises'[n].calls = << [k |-> "resolve", v |-> resp.payload] >>
                 /\ Gone(resp.id)
                 /\ OthersUntouched(n, resp.id)
                 /\ subs' = subs]_vars

\* C7 witness: a request was resolved by PREVIEW_COMPLETE while an older request
\* is still tracked and pending.
C7_Witness ==
    \E n, m \in PromiseIds :
       /\ m < n
       /\ promises[n].st = "fulfilled"
       /\ promises[n].v.kind = "complete"
       /\ promises[m].st = "pending"
       /\ Tracked(promises[m].id)

\* C8: a PREVIEW_CHUNK or PROGRESS response calls the onProgress of the request
\* that has its id once with the payload, or nothing when that request has no
\* subscriber registered; no other subscriber is called, no promise is settled
\* and no map entry is removed.
C8_ProgressOnlyNotifies ==
    [][\A w \in Workers :
          (OnMessage(w) /\ Head(channel[w]).type \in ProgressTypes)
          => LET resp == Head(channel[w])
                 id   == resp.id
             IN  /\ promises' = promises
                 /\ messageHandlers' = messageHandlers
                 /\ errorHandlers' = errorHandlers
                 /\ progressHandlers' = progressHandlers
                 /\ IF id \in DOMAIN progressHandlers
                    THEN LET s == promises[PromiseOf(id)].sub
                         IN  /\ subs[s].onProgress
                             /\ subs' = [subs EXCEPT ![s].progress = Append(@, resp.payload)]
                    ELSE subs' = subs]_vars

\* C8 witness: a subscriber has received a chunk and its request is still
\* tracked and pending.
C8_Witness ==
    \E n \in PromiseIds :
       /\ promises[n].st = "pending"
       /\ Tracked(promises[n].id)
       /\ promises[n].id \in DOMAIN progressHandlers
       /\ Len(subs[promises[n].sub].progress) = 1

\* No request with this id is unsettled (it was settled, cancelled, or the id
\* was never given out).
NotPending(id) ==
    \A n \in PromiseIds : promises[n].id = id => promises[n].st # "pending"

\* C9: a response whose id belongs to no unsettled request changes nothing in
\* the manager: no settle function and no subscriber is called, and the maps,
\* the timers and the context stay as they are.
C9_UnknownIdIgnored ==
    [][\A w \in Workers :
          (OnMessage(w) /\ NotPending(Head(channel[w]).id))
          => UNCHANGED managerVars]_vars

\* C9 witness: a chunk and a terminal response were both delivered for a
\* request that cancelAll had rejected before.
C9_Witness ==
    \E n \in PromiseIds :
       /\ Cancelled(n)
       /\ << promises[n].id, "PREVIEW_CHUNK" >> \in ignored
       /\ << promises[n].id, "PREVIEW_COMPLETE" >> \in ignored

\* C10: whatever the order of the responses, a request is resolved only with
\* the payload of a response to itself (a result or stream summary computed from
\* its own payload, or the null payload of an error response whose error string
\* is empty), the rejection of a request is that of a cancelAll or the error of
\* a response, each settle function is called once, and a subscriber is only
\* ever called with chunks of its own request.
C10_ResponsesReachTheirOwnRequest ==
    /\ \A n \in PromiseIds :
          /\ promises[n].st = "fulfilled" =>
                /\ \/ /\ promises[n].v.kind \in {"result", "complete"}
                      /\ promises[n].v.data = promises[n].sub
                   \/ /\ promises[n].v = Null
                      /\ thrown = ""
                /\ Len(promises[n].calls) = 1
          /\ promises[n].st = "rejected" =>
                /\ Cancelled(n) \/ promises[n].v = Str(thrown)
                /\ Len(promises[n].calls) = 1
    /\ \A s \in SubIds : \A i \in 1..Len(subs[s].progress) :
          /\ subs[s].onProgress
          /\ subs[s].progress[i].kind = "chunk"
          /\ subs[s].progress[i].data = s

\* C10 witness: two requests were in flight on one context and the younger one
\* was answered first; both are settled by their own responses.
C10_Witness ==
    \E n, m \in PromiseIds :
       /\ m < n
       /\ promises[m].w = promises[n].w
       /\ promises[m].w # 0
       /\ promises[n].st = "fulfilled"
       /\ promises[m].st = "pending"
       /\ Tracked(promises[m].id)
       /\ channel[promises[m].w] # << >>
       /\ Head(channel[promises[m].w]).id = promises[m].id

\* C11: at most one context created by the manager is live at any time, and
\* it is the one this.worker refers to.
C11_AtMostOneLiveContext ==
    /\ Cardinality(alive) <= 1
    /\ alive \subseteq 1..created
    /\ alive = IF worker = 0 THEN {} ELSE {worker}

\* C11 witness: a second context is live after the first one was terminated
\* with responses still on their way.
C11_Witness ==
    /\ created >= 2
    /\ alive = {created}
    /\ \E w \in 1..(created - 1) : channel[w] # << >>

\* C12: the factory is called only by a postMessage call made while
\* this.worker is null, once, and the context it returns becomes this.worker;
\* every other call, and every timer callback, leaves the context as it is.
C12_FactoryOnlyWhenNoContext ==
    [][/\ created' # created =>
             /\ worker = 0
             /\ Len(subs') = Len(subs) + 1
             /\ created' = created + 1
             /\ worker' = created'
             /\ worker' \in alive'
       /\ Len(subs') = Len(subs) + 1 =>
             /\ subs'[Len(subs')].ctx = worker'
             /\ IF worker = 0
                THEN created' = created + 1
                ELSE created' = created /\ worker' = worker /\ alive' = alive
       /\ (\E t \in timers : TimerFire(t)) => created' = created /\ worker' = worker]_vars

\* C12 witness: a call found the context of the call before it and reused it.
C12_Witness ==
    \E s \in SubIds :
       /\ s > 1
       /\ subs[s].ctx = subs[s - 1].ctx
       /\ worker = subs[s].ctx
       /\ created = 1

\* C13: while a request is tracked in one of the maps the manager holds a live
\* context, and every request was posted to a context when it was dispatched.
C13_TrackedImpliesLiveContext ==
    /\ (\/ DOMAIN messageHandlers # {}
        \/ DOMAIN errorHandlers # {}
        \/ DOMAIN progressHandlers # {}) => (worker # 0 /\ worker \in alive)
    /\ \A n \in PromiseIds : promises[n].w # 0

\* C14: no two requests of a manager have the same id, cancelAll or not in
\* between; every map entry is that of the request with this id, and a response
\* still on its way carries the id of a request of its own context only.
C14_IdsUnique ==
    /\ \A n, m \in PromiseIds : n # m => promises[n].id # promises[m].id
    /\ \A id \in DOMAIN messageHandlers : promises[messageHandlers[id]].id = id
    /\ \A id \in DOMAIN errorHandlers : promises[errorHandlers[id]].id = id
    /\ \A id \in DOMAIN progressHandlers :
          \E n \in PromiseIds : promises[n].id = id /\ promises[n].sub = progressHandlers[id]
    /\ \A w \in Workers : \A i \in 1..Len(channel[w]) :
          \A n \in PromiseIds : promises[n].id = channel[w][i].id => promises[n].w = w

\* C14 witness: a request of the type of a cancelled request was dispatched to
\* a new context while a response to the cancelled one is still on its way.
C14_Witness ==
    \E n, m \in PromiseIds :
       /\ m < n
       /\ Cancelled(m)
       /\ promises[n].st = "pending"
       /\ promises[n].id[1] = promises[m].id[1]
       /\ promises[n].w # promises[m].w
       /\ \E i \in 1..Len(channel[promises[m].w]) :
             channel[promises[m].w][i].id = promises[m].id

\* Nothing is tracked, no timer is known and there is no context.
Idle ==
    /\ worker = 0
    /\ messageHandlers = EmptyMap
    /\ errorHandlers = EmptyMap
    /\ progressHandlers = EmptyMap
    /\ debounceTimers = EmptyMap

\* C18: a terminate() step is a cancelAll step with the default reason and the
\* other way round, and a terminate or cancelAll called when nothing is tracked
\* and no context exists changes nothing: no settle function is called and no
\* context is created.
C18_TerminateIsIdempotentCancelAll ==
    [][/\ Terminate <=> CancelAll(CANCELLED_MESSAGE)
       /\ Idle => \A r \in CancelReasons : CancelAll(r) => UNCHANGED vars]_vars

\* C18 witness: terminate() has rejected a request with the default reason,
\* which the callers of this run do not use, and left the manager idle.
C18_Witness ==
    /\ Idle
    /\ created > 0
    /\ callerReason # CANCELLED_MESSAGE
    /\ \E n \in PromiseIds : promises[n].calls = << RejectCall(CANCELLED_MESSAGE) >>

\* Call s belongs to the burst that call b began: s is b, or s was made while
\* the timer of a call of the burst was armed.
RECURSIVE InBurst(_, _)
InBurst(b, s) ==
    \/ s = b
    \/ s > b /\ \E p \in subs[s].armed : InBurst(b, p)

\* Debounced call b was made with no request of its type waiting for a timer
\* or in flight.
BeginsBurst(b) ==
    /\ subs[b].debounceMs > 0
    /\ subs[b].armed = {}
    /\ ~subs[b].busy

\* C15: in a burst of debounced calls of one type that began with no request
\* of the type waiting or in flight, a call that was followed by another one
\* before its timer fired is never dispatched, so only the last call of the
\* burst is; and a dispatched request carries the payload and the onProgress
\* of its own call.
C15_BurstDispatchesOnlyTheLast ==
    /\ \A b, t, s \in SubIds :
          (BeginsBurst(b) /\ InBurst(b, t) /\ t \in subs[s].armed) => ~Dispatched(t)
    /\ \A n \in PromiseIds :
          /\ promises[n].id \in DOMAIN progressHandlers =>
                /\ progressHandlers[promises[n].id] = promises[n].sub
                /\ subs[promises[n].sub].onProgress
          /\ \A w \in Workers : \A i \in 1..Len(inbox[w]) :
                inbox[w][i].id = promises[n].id =>
                   /\ inbox[w][i].payload.data = promises[n].sub
                   /\ inbox[w][i].type = subs[promises[n].sub].type

\* C16: no two armed timers belong to calls of the same type.
C16_OneArmedTimerPerType ==
    \A t1, t2 \in timers : t1 # t2 => subs[t1].type # subs[t2].type

\* C17: a debounced call that was followed by a debounced call of its type
\* while its timer was armed is never dispatched and its promise stays pending.
C17_SupersededNeverDispatched ==
    \A s, t \in SubIds :
       t \in subs[s].armed => (~Dispatched(t) /\ FutureSt(t) = "pending")

\* What context w has posted for id, in order.
PostedFor(w, id) == SelectSeq(channel[w], LAMBDA r : r.id = id)

TerminalTypes ==
    {"PREVIEW_COMPLETE", "CONVERSION_SUCCESS", "PARSE_SUCCESS", "CONVERSION_ERROR"}
StreamTypes == {"PARSE_FOR_PREVIEW_STREAM", "PREVIEW_CSV_STREAM"}

\* The context has nothing left to do for request n.
Finished(n) ==
    LET w == promises[n].w
    IN  /\ \A i \in 1..Len(inbox[w]) : inbox[w][i].id # promises[n].id
        /\ \A j \in jobs[w] : j.id # promises[n].id

C20_EveryRequestSettles ==
    \A s \in 1..MaxSubs :
       (Len(subs) >= s) ~> (Len(subs) >= s /\ FutureSt(s) # "pending")

\* ------------------------------------------------ preview streams: rows
\* The PREVIEW_CHUNK responses posted for id, in order.
ChunksFor(w, id) ==
    SelectSeq(channel[w], LAMBDA r : r.id = id /\ r.type = "PREVIEW_CHUNK")

\* The responses other than PREVIEW_CHUNK posted for id, in order.
TerminalsFor(w, id) ==
    SelectSeq(channel[w], LAMBDA r : r.id = id /\ r.type # "PREVIEW_CHUNK")

\* The rows of the first k of the chunks cs, concatenated.
RECURSIVE RowsOf(_, _)
RowsOf(cs, k) == IF k = 0 THEN << >> ELSE RowsOf(cs, k - 1) \o cs[k].payload.chunk

\* The number of rows a preview shows of a dataset.
Capped(d) == Min(d.rows, PREVIEW_LIMIT)

IsCsvStream(j) == j.id[1] = "PREVIEW_CSV_STREAM"
IsArrayStream(j) == j.id[1] \in ArrayStreamTypes

Completed(w, j) ==
    \E i \in 1..Len(channel[w]) :
       channel[w][i].id = j.id /\ channel[w][i].type = "PREVIEW_COMPLETE"

\* The payload of the PREVIEW_COMPLETE of job j.
CompletePayload(w, j) ==
    SelectSeq(channel[w],
              LAMBDA r : r.id = j.id /\ r.type = "PREVIEW_COMPLETE")[1].payload

\* The rows emitted so far for job j, in chunk order.
EmittedRows(w, j) == RowsOf(ChunksFor(w, j.id), Len(ChunksFor(w, j.id)))

C25_ChunkTotalRowsIsDatasetSize ==
    \A w \in Workers : \A j \in jobs[w] :
       LET cs == ChunksFor(w, j.id)
       IN  \A k \in 1..Len(cs) : cs[k].payload.totalRows = j.d.rows

\* C26: between two consecutive batches of a stream the task that posted the
\* first has ended: a step that posts a batch of a stream that already has
\* one posts one batch only and is not a step of a parse still running.
C26_YieldBetweenBatches ==
    [][\A w \in Workers : \A j \in jobs[w] :
          (/\ Len(ChunksFor(w, j.id)) >= 1
           /\ Len(ChunksFor(w, j.id)') > Len(ChunksFor(w, j.id))) =>
             /\ ~Parsing(w)
             /\ Len(ChunksFor(w, j.id)') = Len(ChunksFor(w, j.id)) + 1]_vars

\* The dataset breaks a tabular limit: more than 100,000 rows, more than 500
\* distinct columns, or a string cell of more than 200,000 characters.
BreaksLimit(d) ==
    \/ d.rows > 100000
    \/ d.rows >= 1 /\ d.columns + (IF d.extraAt \in 1..d.rows THEN 1 ELSE 0) > 500
    \/ d.rows >= 1 /\ d.cell > 200000

\* The last response posted for job j is its one terminal-error response.
EndedInError(w, j) ==
    LET rs == PostedFor(w, j.id)
    IN  /\ Len(rs) >= 1
        /\ rs[Len(rs)].type = "CONVERSION_ERROR"
        /\ Len(TerminalsFor(w, j.id)) = 1

\* C27: a request whose dataset breaks a limit never gets PREVIEW_COMPLETE,
\* and has its terminal-error response once the context is done with it.
C27_LimitBreachEndsInError ==
    \A w \in Workers : \A j \in jobs[w] :
       BreaksLimit(j.d) =>
          /\ ~Completed(w, j)
          /\ j.phase = "done" => EndedInError(w, j)

\* C28: in the array-backed pipelines a dataset that breaks a limit gets no
\* PREVIEW_CHUNK: the terminal-error is the only response for its id.
C28_ArrayBreachPostsNoChunk ==
    \A w \in Workers : \A j \in jobs[w] :
       (IsArrayStream(j) /\ BreaksLimit(j.d)) =>
          /\ ChunksFor(w, j.id) = << >>
          /\ Len(PostedFor(w, j.id)) = 1
          /\ EndedInError(w, j)

\* C28 witness: an array-backed stream of 100001 rows was answered.
C28_Witness ==
    \E w \in Workers : \E j \in jobs[w] :
       /\ IsArrayStream(j)
       /\ j.d.rows = 100001
       /\ PostedFor(w, j.id) # << >>

\* The row at which the parse step of PREVIEW_CSV_STREAM finds a breach of the
\* row or column limit, 0 if it finds none: the first row with more than 500
\* keys among the rows read while fewer than 1000 are emitted, else row
\* 100001.
DetectionRow(d) ==
    IF d.rows >= 1 /\ d.columns > 500 THEN 1
    ELSE IF d.extraAt \in 1..Min(d.rows, 1000) /\ d.columns + 1 > 500 THEN d.extraAt
    ELSE IF d.rows > 100000 THEN 100001
    ELSE 0

Get(obj, key) ==
    LET idx == {i \in 1..Len(obj.entries) : obj.entries[i][1] = key}
    IN  IF idx = {} THEN Undefined ELSE obj.entries[CHOOSE i \in idx : TRUE][2]

\* The keys of a path joined with '.'.
RECURSIVE JoinPath(_)
JoinPath(path) ==
    IF Len(path) = 1 THEN path[1]
    ELSE JoinPath(SubSeq(path, 1, Len(path) - 1)) \o "." \o path[Len(path)]

\* Every scalar leaf of v, reached by path through nested objects, is the
\* value of out at the joined path, and every array is there as its JSON text.
RECURSIVE LeavesMapped(_, _, _)
LeavesMapped(v, path, out) ==
    IF v.kind = "object"
    THEN \A i \in 1..Len(v.entries) :
            LeavesMapped(v.entries[i][2], Append(path, v.entries[i][1]), out)
    ELSE IF v.kind = "array"
    THEN Get(out, JoinPath(path)) = Str(JsonStringify(v))
    ELSE Get(out, JoinPath(path)) = v

\* A record without nested objects or arrays.
IsFlat(r) ==
    /\ r.kind = "object"
    /\ \A i \in 1..Len(r.entries) : r.entries[i][2].kind \notin {"object", "array"}

\* C30: flattenObject(r) holds every scalar leaf of r at the key made of its
\* path joined with '.', every array as its JSON string, returns a top-level
\* scalar unchanged and a flat record unchanged, and flattening its result
\* again changes nothing.
C30_FlattenMapsLeavesAndIsIdempotent ==
    /\ Len(result) >= 1 =>
          /\ arg.kind \notin {"object", "array"} => result[1] = arg
          /\ arg.kind = "object" =>
                \A i \in 1..Len(arg.entries) :
                   LeavesMapped(arg.entries[i][2], << arg.entries[i][1] >>, result[1])
          /\ IsFlat(arg) => result[1] = arg
    /\ Len(result) = 2 => result[2] = result[1]

\* ------------------------------------------------ handler maps (C40)
\* C40: in every state of a WorkerManager messageHandlers and errorHandlers
\* have the same keys, and every key of progressHandlers is one of them.
C40_HandlerMapsAgree ==
    /\ DOMAIN messageHandlers = DOMAIN errorHandlers
    /\ DOMAIN progressHandlers \subseteq DOMAIN messageHandlers

\* C40 witness: two requests are tracked, one of them with a progress
\* handler.
C40_Witness ==
    /\ Cardinality(DOMAIN messageHandlers) = 2
    /\ Cardinality(DOMAIN progressHandlers) = 1

\* C37: in a completed preview stream exactly one PREVIEW_CHUNK has done =
\* true, and it is the last chunk posted before PREVIEW_COMPLETE.
C37_OneDoneChunkLast ==
    \A w \in Workers : \A j \in jobs[w] :
       LET cs == ChunksFor(w, j.id)
       IN  Completed(w, j) =>
              /\ Len(cs) >= 1
              /\ \A k \in 1..Len(cs) : cs[k].payload.done <=> k = Len(cs)

\* ------------------------------------------- enforceTabularLimits: claims
\* The keys of the object rows of a row array.
KeysOf(rows) ==
    UNION { rows[i].row.keys :
               i \in {n \in 1..Len(rows) : rows[n].count > 0 /\ rows[n].row.kind = "object"} }

\* The cells of the object rows of a row array.
CellsOf(rows) ==
    { rows[i].row.cell :
         i \in {n \in 1..Len(rows) : /\ rows[n].count > 0
                                      /\ rows[n].row.kind = "object"
                                      /\ rows[n].row.keys # {}} }

\* The row array is within the ceilings of rows, columns and cell length.
WithinLimits(rows) ==
    /\ RowCount(rows) <= 100000
    /\ Cardinality(KeysOf(rows)) <= 500
    /\ \A c \in CellsOf(rows) : c.kind = "string" => c.length <= 200000

\* C34: enforceTabularLimits returns (no value) exactly when the row array
\* has at most MAX_ROWS rows, its object rows have at most MAX_COLUMNS keys
\* together and every string cell has at most MAX_CELL_CHARS characters;
\* otherwise it throws.
C34_AcceptsIffWithinLimits ==
    result # << >> =>
       IF WithinLimits(arg)
       THEN result[1] = Returned(Undefined)
       ELSE result[1].kind = "throw"

\* C34 witness: an array at two ceilings was accepted: 99999 rows of columns
\* 1 to 250 and one row of columns 251 to 500.
C34_Witness ==
    /\ arg = << Run(99999, TableRow(1..250, Number("1"))),
                Run(1, TableRow(251..500, Number("1"))) >>
    /\ result = << Returned(Undefined) >>

\* ------------------------------------------------ CONVERT_CSV: claims
\* The one response of the conversion is a success.
Converted == result # << >> /\ result[1] # << >> /\ result[1][1].type = "CONVERSION_SUCCESS"

\* C31: a csv-to-json conversion of an M-row source within the limits, with
\* overwriteRows of length N, succeeds with exactly M rows: the first
\* min(N, M) are the supplied rows, the others are the source rows.
C31_OverwriteIsPositional ==
    (/\ result # << >>
     /\ arg.type = "csv-to-json"
     /\ arg.options.overwriteRows # Undefined
     /\ WithinLimits(arg.rows)) =>
       /\ Converted
       /\ LET out == result[1][1].payload.data
              m   == RowCount(arg.rows)
              n   == RowCount(arg.options.overwriteRows.rows)
          IN  /\ RowCount(out) = m
              /\ \A i \in 1..m :
                    RowAt(out, i) = IF i <= n /\ i <= m
                                    THEN RowAt(arg.options.overwriteRows.rows, i)
                                    ELSE RowAt(arg.rows, i)

\* C31 witness: a 10-row source was converted with overwriteRows of length 3.
C31_Witness ==
    /\ Converted
    /\ arg.type = "csv-to-json"
    /\ arg.rows = DistinctRows(10, 0)
    /\ arg.options.overwriteRows = RowsValue(DistinctRows(3, 100))
    /\ RowCount(result[1][1].payload.data) = 10

\* C32: a json-to-csv conversion with overwriteRows writes its output from
\* the source rows with the first N replaced by the supplied rows.
C32_ExportAppliesOverwriteRows ==
    (/\ Converted
     /\ arg.type = "json-to-csv"
     /\ arg.options.overwriteRows # Undefined) =>
       LET out == result[1][1].payload.data.rows
           n   == Min(RowCount(arg.options.overwriteRows.rows), RowCount(arg.rows))
       IN  \A i \in 1..n : RowAt(out, i) = RowAt(arg.options.overwriteRows.rows, i)

\* C36: the rows in the success payload of a csv-to-json conversion are
\* within the row, column and cell-length ceilings.
C36_ConvertedRowsWithinLimits ==
    (Converted /\ arg.type = "csv-to-json") =>
       WithinLimits(result[1][1].payload.data)

\* C33: a request whose handling threw (a text or file that cannot be read, a
\* limit broken, the row ceiling passed while the text is read) has exactly
\* one CONVERSION_ERROR response with its id, the error of that response is
\* a string, and no PREVIEW_COMPLETE or other success response has its id.
C33_ExceptionAnsweredOnce ==
    \A w \in Workers : \A j \in jobs[w] :
        j.error # NoError =>
            LET rs     == PostedFor(w, j.id)
                errors == SelectSeq(rs, LAMBDA r : r.type = "CONVERSION_ERROR")
            IN  /\ Len(errors) = 1
                /\ errors[1].error = Str(j.error)
                /\ errors[1].payload = Null
                /\ \A i \in 1..Len(rs) :
                      /\ rs[i].type \notin SuccessTypes
                      /\ rs[i].type # "CONVERSION_ERROR" => rs[i].error = Undefined

\* Reached: a text that cannot be read was answered, and so was a CSV text
\* whose row ceiling was passed after batches had been posted.
C33_Witness ==
    \E w \in Workers : \E j \in jobs[w] :
        /\ j.error = MalformedInput
        /\ Len(PostedFor(w, j.id)) = 1

\* Reached: the row ceiling of a CSV text was passed after batches of its
\* first rows had been posted.
C33_WitnessAfterChunks ==
    \E w \in Workers : \E j \in jobs[w] :
        /\ j.error # NoError
        /\ Len(ChunksFor(w, j.id)) >= 1
        /\ Len(TerminalsFor(w, j.id)) = 1

\* ------------------------------------ PARSE_FOR_PREVIEW_STREAM: claims
\* The rows of the PREVIEW_CHUNK responses of the call.
PreviewedRows ==
    IF result = << >> THEN << >>
    ELSE LET cs == SelectSeq(result[1], LAMBDA r : r.type = "PREVIEW_CHUNK")
         IN  RowsOf(cs, Len(cs))

\* C35: every row of every batch of a preview stream has only scalar or
\* string field values, no nested object and no array, with the flatten
\* option on and with it off.
C35_PreviewRowsAreFlat ==
    \A i \in 1..Len(PreviewedRows) :
        PreviewedRows[i].kind = "object" => IsFlat(PreviewedRows[i])

\* The same with the flatten option on only.
FlattenedPreviewRowsAreFlat ==
    arg.options.flatten => C35_PreviewRowsAreFlat

\* ---------------------------------------------- converter screens: claims
\* C38: the watchdog of an operation is disarmed when the operation ends, by
\* success, error or cancellation: the callback of the watchdog never runs,
\* and so never sets the timeout error, for an operation that has ended.
C38_WatchdogDisarmedAtEnd ==
    [][\A i \in 1..Len(converter.operations) :
          (/\ converter.operations[i].timer = "armed"
           /\ converter'.operations[i].timer = "fired")
          => converter.operations[i].phase # "ended"]_vars

\* The same for the operations that ended in success only.
WatchdogDisarmedAfterSuccess ==
    \A i \in 1..Len(converter.operations) :
        converter.operations[i].outcome = "done" =>
            converter.operations[i].timer # "armed"

\* ------------------------------------------------------ JsonViewer: claims
\* The step writes the outcome of parse request r to the viewer state.
WritesParseOutcome(r) ==
    \/ viewer'.jsonTree = Tree(r.seq) /\ viewer.jsonTree # Tree(r.seq)
    \/ viewer'.error = ParseError(r.seq) /\ viewer.error # ParseError(r.seq)
    \/ /\ viewer'.taskStatus \in {TaskStatus("done", r.seq), TaskStatus("error", r.seq)}
       /\ viewer'.taskStatus # viewer.taskStatus

\* The step writes the outcome of search request r to the viewer state.
WritesSearchOutcome(r) ==
    /\ viewer'.searchCount \in {SearchCount(r.seq, f) : f \in BOOLEAN}
    /\ viewer'.searchCount # viewer.searchCount

\* C39: the tree, the error and the task status of a PARSE_JSON request are
\* written only when no handleParse, handleClear or handleCancelCurrentTask
\* has run since the request was started, so of overlapping parses only the
\* latest is applied; the count of a search is written only when no search
\* was started after it.
C39_OnlyLatestOutcomeApplied ==
    [][\A i \in 1..Len(viewer.requests) :
          LET r == viewer.requests[i]
          IN  /\ (r.kind = "parse" /\ WritesParseOutcome(r)) =>
                    /\ r.after = viewer.handled
                    /\ \A j \in (i + 1)..Len(viewer.requests) :
                          viewer.requests[j].kind # "parse"
              /\ (r.kind = "search" /\ WritesSearchOutcome(r)) =>
                    \A j \in (i + 1)..Len(viewer.requests) :
                        viewer.requests[j].kind # "search"]_vars

\* Reached: of two searches in flight the first was dropped and the second
\* applied.
StaleSearchDropped ==
    \E i, j \in 1..Len(viewer.requests) :
        /\ i < j
        /\ viewer.requests[i].kind = "search" /\ viewer.requests[i].outcome = "dropped"
        /\ viewer.requests[j].kind = "search" /\ viewer.requests[j].outcome = "applied"

\* Reached: of two overlapping parses the first was dropped and the second
\* applied, and its tree is the one shown.
C39_Witness ==
    /\ \E i, j \in 1..Len(viewer.requests) :
          /\ i < j
          /\ viewer.requests[i].kind = "parse" /\ viewer.requests[i].outcome = "dropped"
          /\ viewer.requests[j].kind = "parse" /\ viewer.requests[j].outcome = "applied"
    /\ viewer.jsonTree = Tree(viewer.parseSeqRef)

====
